---- MODULE Spec2Model ----
(***************************************************************************)
(* KOBRA game server: matchmaking queues, match sessions and the snake     *)
(* engine (server index.ts, game/engine.ts, game/types.ts).                *)
(*                                                                         *)
(* Numbers.  The engine computes in IEEE doubles; the model computes the   *)
(* same formulas in fixed point:                                           *)
(*   positions, lengths, speeds   in 1/SCALE px (SCALE = 10)               *)
(*   angles                       in milliradians                          *)
(*   cos / sin                    in 1/1000                                *)
(*   time                         in ms                                    *)
(* A value u = rng.next() in [0,1) is carried as its numerator             *)
(* seed' (u = seed' / 233280).                                             *)
(***************************************************************************)
EXTENDS Integers, Sequences, FiniteSets, TLC

\* ------------------------------------------------------------------------
\* Engine constants (engine.ts, lines 22-52)
\* ------------------------------------------------------------------------
SCALE == 10
ARENA_WIDTH == 3000
ARENA_HEIGHT == 3000
MATCH_DURATION_MS == 120000
BASE_SPEED == 150
AI_SPEED == 120
BOOST_MULTIPLIER == 2
BOOST_DURATION_MS == 500
BOOST_LENGTH_COST_PCT == 5
TURN_SPEED == 3
INITIAL_LENGTH == 50
SEGMENT_SIZE == 8
RESPAWN_GRACE_MS == 2000
RESPAWN_DELAY_MS == 2000
ORB_COUNT == 200
ORB_SPAWN_RATE == 300
ORB_SCORE_INCREMENT == 5
MAX_ORB_SIZE == 3
NUM_AI_BOT_MODE == 8
MAX_CHECK_DISTANCE == 500
MAX_DELTA_MS == 100
RNG_MUL == 9301
RNG_INC == 49297
RNG_MOD == 233280
PI == 3142

SNAKE_COLORS == <<"red", "blue", "green", "purple", "yellow", "orange">>

\* The addresses `AI_${i}` of the auxiliary AI snakes, i = 0 .. 7.
AI_ADDRESSES == <<"AI_0", "AI_1", "AI_2", "AI_3", "AI_4", "AI_5", "AI_6", "AI_7">>

\* ------------------------------------------------------------------------
\* Fixed-point arithmetic standing for Math.* on doubles
\* ------------------------------------------------------------------------
Max(a, b) == IF a >= b THEN a ELSE b
Min(a, b) == IF a <= b THEN a ELSE b
Abs(a) == IF a < 0 THEN -a ELSE a
Sign(a) == IF a > 0 THEN 1 ELSE IF a < 0 THEN -1 ELSE 0

\* Division rounding toward zero, result of a quotient of doubles cut to the grid.
Quot(a, b) == IF a >= 0 THEN a \div b ELSE -((-a) \div b)

RECURSIVE SqrtIter(_, _)
SqrtIter(n, x) ==
    LET y == (x + n \div x) \div 2
    IN  IF y >= x THEN x ELSE SqrtIter(n, y)

\* Math.sqrt, rounded down to the grid.
Sqrt(n) == IF n <= 0 THEN 0 ELSE SqrtIter(n, n)

\* Math.sqrt(dx*dx + dy*dy) of two grid offsets.
Dist(dx, dy) == Sqrt(dx * dx + dy * dy)

\* cos on [0, PI/2], Taylor series to the 8th power in Horner form.
CosQ(x) ==
    LET y  == (x * x) \div 1000
        t4 == 1000 - y \div 56
        t3 == 1000 - (y * t4) \div 30000
        t2 == 1000 - (y * t3) \div 12000
    IN  1000 - (y * t2) \div 2000

\* Math.cos of an angle in mrad, in 1/1000.
Cos(a) ==
    LET n == a % (2 * PI)
        h == PI \div 2
    IN  IF n <= h THEN CosQ(n)
        ELSE IF n <= PI THEN -CosQ(PI - n)
        ELSE IF n <= PI + h THEN -CosQ(n - PI)
        ELSE CosQ(2 * PI - n)

\* Math.sin of an angle in mrad, in 1/1000.
Sin(a) == Cos(a - PI \div 2)

\* atan on [0,1] (argument in 1/1000), in mrad: (PI/4) z + 0.273 z (1 - z).
AtanUnit(z) == ((PI \div 4) * z) \div 1000 + (273 * z * (1000 - z)) \div 1000000

\* Math.atan2(dy, dx) in mrad, in (-PI, PI].
Atan2(dy, dx) ==
    LET ax == Abs(dx)
        ay == Abs(dy)
        a  == IF ax = 0 /\ ay = 0 THEN 0
              ELSE IF ax >= ay THEN AtanUnit((ay * 1000) \div ax)
              ELSE PI \div 2 - AtanUnit((ax * 1000) \div ay)
    IN  IF dx >= 0 THEN (IF dy >= 0 THEN a ELSE -a)
        ELSE (IF dy >= 0 THEN PI - a ELSE a - PI)

\* TRUE, once v has been evaluated: orders a computation whose steps the code
\* takes one after the other.
Forced(v) == v = v

\* e, evaluated after v.
After(v, e) == IF v = v THEN e ELSE e

\* NaN, the double that arithmetic on `undefined` yields: a value outside the
\* grid.  Every operation on it gives NaN and every comparison with it is false.
NaN == -1000000000
isNaN(v) == v = NaN

\* Infinity, as the starting value of a minimum search.
Infinity == 2147483647

\* ------------------------------------------------------------------------
\* SeededRandom (engine.ts, lines 55-62)
\* ------------------------------------------------------------------------
\* next(): seed = (seed * 9301 + 49297) % 233280, the product split so that
\* no intermediate value leaves 32 bits.
rngNext(seed) ==
    (((seed * 9) % RNG_MOD) * 1000 + seed * (RNG_MUL - 9000) + RNG_INC) % RNG_MOD

\* floor(u * k) for u = s / 233280 and 0 <= k < 9000000.
rngScale(s, k) ==
    LET a == s * (k \div 1000)
        q == a \div RNG_MOD
        r == a % RNG_MOD
    IN  q * 1000 + (r * 1000 + s * (k % 1000)) \div RNG_MOD

\* ------------------------------------------------------------------------
\* Orbs and snakes (engine.ts: randomColor, spawnOrb, createSnake)
\* ------------------------------------------------------------------------
\* randomColor(): SNAKE_COLORS[floor(rng.next() * 6)], for the draw s.
randomColor(s) == SNAKE_COLORS[1 + rngScale(s, Len(SNAKE_COLORS))]

\* spawnOrb(): draws size, x, y and the colour from the seeded generator and
\* the id from Math.random() (the draw mr).  Result: the orb and the new seed.
\* An id is a 4-tuple: <<"rnd", "", draw, 0>> for Math.random().toString(36),
\* <<"death", address, segment index or -1 for the head, Date.now()>> otherwise.
spawnOrb(seed, mr) ==
    LET s1   == rngNext(seed)
        s2   == rngNext(s1)
        s3   == rngNext(s2)
        s4   == rngNext(s3)
        size == 1 + rngScale(s1, MAX_ORB_SIZE)
    IN  [orb |-> [id    |-> <<"rnd", "", mr, 0>>,
                  x     |-> 50 * SCALE + rngScale(s2, (ARENA_WIDTH - 100) * SCALE),
                  y     |-> 50 * SCALE + rngScale(s3, (ARENA_HEIGHT - 100) * SCALE),
                  size  |-> size,
                  value |-> size * 3 * SCALE,
                  color |-> randomColor(s4)],
         rng |-> s4]

\* cos(direction) * v and sin(direction) * v on the grid.
CosTimes(direction, v) == Quot(Cos(direction) * v, 1000)
SinTimes(direction, v) == Quot(Sin(direction) * v, 1000)

\* The body laid out behind the head: for (i = 0; i < INITIAL_LENGTH; i += SEGMENT_SIZE).
initialSegments(x, y, direction) ==
    [k \in 1 .. (INITIAL_LENGTH + SEGMENT_SIZE - 1) \div SEGMENT_SIZE |->
        [x |-> x - CosTimes(direction, (k - 1) * SEGMENT_SIZE * SCALE),
         y |-> y - SinTimes(direction, (k - 1) * SEGMENT_SIZE * SCALE)]] \o <<>>

\* createSnake(address, x, y, direction, isAI); colorDraw is the rng.next()
\* consumed by randomColor().
createSnake(address, x, y, direction, isAI, colorDraw) ==
    [address         |-> address,
     segments        |-> initialSegments(x, y, direction),
     direction       |-> direction,
     targetDirection |-> direction,
     length          |-> INITIAL_LENGTH * SCALE,
     speed           |-> (IF isAI THEN AI_SPEED ELSE BASE_SPEED) * SCALE,
     alive           |-> TRUE,
     respawnTime     |-> 0,
     graceTime       |-> 0,
     boostTime       |-> 0,
     score           |-> 0,
     kills           |-> 0,
     color           |-> randomColor(colorDraw)]

\* hashMatchId(matchId): hash = ((hash << 5) - hash) + charCode, kept to a
\* signed 32-bit integer at every step (hash & hash), then Math.abs.  The
\* 32-bit word is carried as two 16-bit halves.
RECURSIVE hashHalves(_, _, _, _)
hashHalves(chars, i, hi, lo) ==
    IF i > Len(chars) THEN <<hi, lo>>
    ELSE LET l == lo * 31 + chars[i]
             h == hi * 31 + l \div 65536
         IN  After(h, hashHalves(chars, i + 1, h % 65536, l % 65536))

\* The generator's state after new SeededRandom(hashMatchId(matchId)), kept
\* modulo 233280 (next() is the first and only reader of the seed).
hashMatchId(matchId) ==
    LET w  == hashHalves(matchId, 1, 0, 0)
        hi == w[1]
        lo == w[2]
    IN  IF hi < 32768 THEN (hi * 65536 + lo) % RNG_MOD
        ELSE \* negative word: Math.abs gives 2^32 - (hi * 65536 + lo)
             ((65535 - hi) * 65536 + (65536 - lo)) % RNG_MOD

\* The generator after k more calls of next().
rngSkip4(seed) == rngNext(rngNext(rngNext(rngNext(seed))))

RECURSIVE seedsEvery4(_, _)
\* <<seed, seed after 4 draws, after 8 draws, ...>>, n entries: the seed each
\* of n consecutive callers finds when every caller draws four times
\* (spawnOrb; one AI snake).  Split in halves to keep the evaluation shallow.
seedsEvery4(n, seed) ==
    IF n <= 1 THEN <<seed>>
    ELSE LET l == seedsEvery4(n \div 2, seed)
         IN  l \o seedsEvery4(n - n \div 2, rngSkip4(l[Len(l)]))

\* The initial scatter: for (i = 0; i < ORB_COUNT; i++) orbs.push(spawnOrb()).
spawnOrbs(n, seed, mr) ==
    IF n = 0 THEN [orbs |-> <<>>, rng |-> seed, random |-> mr]
    ELSE LET seeds == seedsEvery4(n, seed)
         IN  After(seeds,
                   [orbs   |-> [k \in 1..n |-> spawnOrb(seeds[k], mr + k - 1).orb] \o <<>>,
                    rng    |-> rngSkip4(seeds[n]),
                    random |-> mr + n])

\* The auxiliary AI snakes of a bot match, AI_0 .. AI_7: each draws x, y, the
\* direction and, in createSnake, the colour.
spawnAISnake(i, seed) ==
    LET s1 == rngNext(seed)
        s2 == rngNext(s1)
        s3 == rngNext(s2)
        s4 == rngNext(s3)
        spawnDir == rngScale(s3, 2 * PI)
    IN  After(<<s4, spawnDir>>,
              createSnake(AI_ADDRESSES[i + 1],
                          200 * SCALE + rngScale(s1, (ARENA_WIDTH - 400) * SCALE),
                          200 * SCALE + rngScale(s2, (ARENA_HEIGHT - 400) * SCALE),
                          spawnDir, TRUE, s4))

\* An arena without auxiliary snakes.
spawnNoAISnakes(seed) == [aiSnakes |-> <<>>, rng |-> seed]

spawnAISnakes(seed) ==
    LET seeds == seedsEvery4(NUM_AI_BOT_MODE, seed)
    IN  After(seeds,
              [aiSnakes |-> [k \in 1..NUM_AI_BOT_MODE |-> spawnAISnake(k - 1, seeds[k])]
                            \o <<>>,
               rng      |-> rngSkip4(seeds[NUM_AI_BOT_MODE])])

\* createInitialState(p1Address, p2Address, matchId, isBotMode).  mr is the
\* state of Math.random() on entry.  Result: the GameState, the module's
\* generator `rng` (re-seeded from the match id) and Math.random() on exit.
createInitialState(p1Address, p2Address, matchId, isBotMode, mr) ==
    LET h   == hashMatchId(matchId)
        o   == spawnOrbs(ORB_COUNT, h, mr)
        a   == IF isBotMode THEN spawnAISnakes(o.rng)
               ELSE [aiSnakes |-> <<>>, rng |-> o.rng]
        c1  == rngNext(a.rng)
        c2  == rngNext(c1)
    IN  After(<<h, o.rng, a.rng, c2>>,
        [state |->
            [player1      |-> createSnake(p1Address, (ARENA_WIDTH * SCALE) \div 4,
                                          (ARENA_HEIGHT * SCALE) \div 2, 0, FALSE, c1),
             player2      |-> createSnake(p2Address, (ARENA_WIDTH * SCALE * 3) \div 4,
                                          (ARENA_HEIGHT * SCALE) \div 2, PI,
                                          p2Address = "BOT", c2),
             aiSnakes     |-> a.aiSnakes,
             orbs         |-> o.orbs,
             gameTime     |-> 0,
             matchEnded   |-> FALSE,
             winner       |-> "null",
             tick         |-> 0,
             lastOrbSpawn |-> 0,
             arenaWidth   |-> ARENA_WIDTH,
             arenaHeight  |-> ARENA_HEIGHT],
         rng    |-> c2,
         random |-> o.random])

\* ------------------------------------------------------------------------
\* Public input API (engine.ts: setDirection, startBoost)
\* ------------------------------------------------------------------------
\* A steer that turns the snake on the spot.
setDirectionNow(snake, mouseX, mouseY, canvasWidth, canvasHeight) ==
    IF ~snake.alive \/ Len(snake.segments) = 0 THEN snake
    ELSE [snake EXCEPT !.targetDirection = PI \div 2, !.direction = PI \div 2]

\* setDirection(snake, mouseX, mouseY, canvasWidth, canvasHeight)
setDirection(snake, mouseX, mouseY, canvasWidth, canvasHeight) ==
    IF ~snake.alive \/ Len(snake.segments) = 0 THEN snake
    ELSE IF isNaN(mouseX) \/ isNaN(mouseY) \/ isNaN(canvasWidth) \/ isNaN(canvasHeight)
    THEN [snake EXCEPT !.targetDirection = NaN]   \* Math.atan2(NaN, NaN)
    ELSE [snake EXCEPT !.targetDirection =
            Atan2(mouseY - canvasHeight \div 2, mouseX - canvasWidth \div 2)]

\* A boost granted whenever the snake is long enough.
startBoostAgain(snake) ==
    IF snake.length < 20 * SCALE THEN snake
    ELSE [snake EXCEPT
            !.length = @ - Max(5 * SCALE, (@ * BOOST_LENGTH_COST_PCT) \div 100),
            !.boostTime = BOOST_DURATION_MS]

\* A boost granted to a snake of any length.
startBoostShort(snake) ==
    IF snake.boostTime > 0 THEN snake
    ELSE [snake EXCEPT
            !.length = @ - Max(5 * SCALE, (@ * BOOST_LENGTH_COST_PCT) \div 100),
            !.boostTime = BOOST_DURATION_MS]

\* A boost at twice the price.
startBoostDear(snake) ==
    IF snake.boostTime > 0 \/ snake.length < 20 * SCALE THEN snake
    ELSE [snake EXCEPT
            !.length = @ - 2 * Max(5 * SCALE, (@ * BOOST_LENGTH_COST_PCT) \div 100),
            !.boostTime = BOOST_DURATION_MS]

\* startBoost(snake): cost = max(5, length * 0.05)
startBoost(snake) ==
    IF snake.boostTime > 0 \/ snake.length < 20 * SCALE THEN snake
    ELSE [snake EXCEPT
            !.length = @ - Max(5 * SCALE, (@ * BOOST_LENGTH_COST_PCT) \div 100),
            !.boostTime = BOOST_DURATION_MS]

\* ------------------------------------------------------------------------
\* Movement (engine.ts: updateSnake)
\* ------------------------------------------------------------------------
isAIAddress(address) ==
    address = "BOT" \/ \E i \in 1 .. Len(AI_ADDRESSES) : address = AI_ADDRESSES[i]

\* while (dirDiff > PI) dirDiff -= 2 PI; while (dirDiff < -PI) dirDiff += 2 PI
RECURSIVE wrapDiff(_)
wrapDiff(d) ==
    IF d > PI THEN wrapDiff(d - 2 * PI)
    ELSE IF d < -PI THEN wrapDiff(d + 2 * PI)
    ELSE d

\* The direction after one step of TURN_SPEED * dt toward targetDirection.
\* A NaN dirDiff fails every test: the direction is set to targetDirection.
turnedDirection(snake, deltaMs) ==
    LET dirDiff == wrapDiff(snake.targetDirection - snake.direction)
        maxTurn == TURN_SPEED * deltaMs
        d       == IF Abs(dirDiff) > maxTurn
                   THEN snake.direction + Sign(dirDiff) * maxTurn
                   ELSE snake.targetDirection
    IN  IF isNaN(snake.targetDirection) THEN NaN
        ELSE IF isNaN(snake.direction) THEN snake.targetDirection % (2 * PI)
        ELSE d % (2 * PI)

\* The speed chosen for this step, before the boundary slowdown.
stepSpeed(snake) ==
    IF snake.boostTime > 0 THEN BASE_SPEED * SCALE * BOOST_MULTIPLIER
    ELSE LET factor  == Max(500, 1000 - Quot((snake.length - INITIAL_LENGTH * SCALE) * 1000,
                                              500 * SCALE))
             baseSpd == IF isAIAddress(snake.address) THEN AI_SPEED ELSE BASE_SPEED
         IN  (baseSpd * SCALE * factor) \div 1000

\* Each segment chases the one ahead: segments 2..n in order, each against the
\* already moved predecessor.
RECURSIVE chaseFollow(_, _)
chaseFollow(segs, i) ==
    IF i > Len(segs) THEN segs
    ELSE LET target == segs[i - 1]
             curr   == segs[i]
             dx     == target.x - curr.x
             dy     == target.y - curr.y
             dist   == Dist(dx, dy)
         IN  IF isNaN(target.x) \/ isNaN(target.y) \/ isNaN(curr.x) \/ isNaN(curr.y)
             THEN chaseFollow(segs, i + 1)     \* dist is NaN: not > SEGMENT_SIZE * 0.6
             ELSE
             IF dx * dx + dy * dy > ((SEGMENT_SIZE * SCALE * 6) \div 10) * ((SEGMENT_SIZE * SCALE * 6) \div 10)
             THEN chaseFollow([segs EXCEPT ![i] =
                        [x |-> target.x - Quot(dx * SEGMENT_SIZE * SCALE, dist),
                         y |-> target.y - Quot(dy * SEGMENT_SIZE * SCALE, dist)]], i + 1)
             ELSE chaseFollow(segs, i + 1)

\* while (segments.length < targetSegments) push a segment beyond the tail.
RECURSIVE growSegments(_, _)
growSegments(segs, targetSegments) ==
    IF Len(segs) >= targetSegments THEN segs
    ELSE LET last == segs[Len(segs)]
             prev == IF Len(segs) >= 2 THEN segs[Len(segs) - 1] ELSE last
             dx   == last.x - prev.x
             dy   == last.y - prev.y
             dist == Dist(dx, dy)
             new  == IF isNaN(last.x) \/ isNaN(last.y) \/ isNaN(prev.x) \/ isNaN(prev.y)
                     THEN [x |-> NaN, y |-> NaN]    \* dist is NaN, not 0; r is NaN
                     ELSE IF dist = 0 THEN [x |-> last.x, y |-> last.y - SEGMENT_SIZE * SCALE]
                     ELSE [x |-> last.x + Quot(dx * SEGMENT_SIZE * SCALE, dist),
                           y |-> last.y + Quot(dy * SEGMENT_SIZE * SCALE, dist)]
         IN  growSegments(Append(segs, new), targetSegments)

\* Segments left as they are, whatever the length.
keepSegments(segs, length) == segs

\* Grow / trim the segments to floor(length / SEGMENT_SIZE).
reconcileSegments(segs, length) ==
    LET targetSegments == length \div (SEGMENT_SIZE * SCALE)
        grown          == growSegments(segs, targetSegments)
    IN  IF Len(grown) > targetSegments + 2
        THEN SubSeq(grown, 1, targetSegments + 1)
        ELSE grown

\* updateSnake(snake, deltaMs)
updateSnake(snake, deltaMs) ==
    LET graceTime == IF snake.graceTime > 0 THEN Max(0, snake.graceTime - deltaMs)
                     ELSE snake.graceTime
        boostTime == IF snake.boostTime > 0 THEN Max(0, snake.boostTime - deltaMs)
                     ELSE snake.boostTime
        speed     == stepSpeed(snake)
        direction == turnedDirection(snake, deltaMs)
        head      == snake.segments[1]
        nx        == IF isNaN(direction) \/ isNaN(head.x) THEN NaN
                     ELSE head.x + Quot(Cos(direction) * speed * deltaMs, 1000000)
        ny        == IF isNaN(direction) \/ isNaN(head.y) THEN NaN
                     ELSE head.y + Quot(Sin(direction) * speed * deltaMs, 1000000)
        margin    == 100 * SCALE
        slowed    == \/ ~isNaN(nx) /\ (nx < margin \/ nx > ARENA_WIDTH * SCALE - margin)
                     \/ ~isNaN(ny) /\ (ny < margin \/ ny > ARENA_HEIGHT * SCALE - margin)
        \* Math.max(20, Math.min(ARENA_WIDTH - 20, NaN)) is NaN
        newHead   == [x |-> IF isNaN(nx) THEN NaN
                            ELSE Max(20 * SCALE, Min((ARENA_WIDTH - 20) * SCALE, nx)),
                      y |-> IF isNaN(ny) THEN NaN
                            ELSE Max(20 * SCALE, Min((ARENA_HEIGHT - 20) * SCALE, ny))]
        chased    == chaseFollow([snake.segments EXCEPT ![1] = newHead], 2)
    IN  [snake EXCEPT
            !.graceTime = graceTime,
            !.boostTime = boostTime,
            !.speed     = IF slowed THEN speed \div 2 ELSE speed,
            !.direction = direction,
            !.segments  = reconcileSegments(chased, snake.length)]

\* ------------------------------------------------------------------------
\* AI (engine.ts: updateAIDirection)
\* ------------------------------------------------------------------------
\* dx*dx + dy*dy: Math.sqrt is monotone, so distances are compared squared.
Dist2(ax, ay, bx, by) == (ax - bx) * (ax - bx) + (ay - by) * (ay - by)

\* The closest orb among orbs[lo..hi] as <<index, squared distance>>, the first
\* among equals (if (dist < closestDist)); the range is split in halves.
RECURSIVE closestOrbIn(_, _, _, _)
closestOrbIn(orbs, head, lo, hi) ==
    IF lo = hi
    THEN IF isNaN(orbs[lo].x) \/ isNaN(orbs[lo].y) \/ isNaN(head.x) \/ isNaN(head.y)
         THEN <<0, Infinity>>       \* dist is NaN: not < closestDist
         ELSE <<lo, Dist2(orbs[lo].x, orbs[lo].y, head.x, head.y)>>
    ELSE LET mid == (lo + hi) \div 2
             l   == closestOrbIn(orbs, head, lo, mid)
             r   == closestOrbIn(orbs, head, mid + 1, hi)
         IN  IF r[2] < l[2] THEN r ELSE l

\* The index of the closest orb, 0 when there is none.
closestOrbIndex(orbs, head) ==
    IF Len(orbs) = 0 THEN 0 ELSE closestOrbIn(orbs, head, 1, Len(orbs))[1]

\* Blend the heading away from every other living snake whose head is within 120.
RECURSIVE avoidOpponents(_, _, _, _, _)
avoidOpponents(td, head, self, allSnakes, j) ==
    IF j > Len(allSnakes) THEN td
    ELSE LET other == allSnakes[j]
         IN  IF j = self \/ ~other.alive \/ Len(other.segments) = 0
             THEN avoidOpponents(td, head, self, allSnakes, j + 1)
             ELSE LET dx == other.segments[1].x - head.x
                      dy == other.segments[1].y - head.y
                      d2 == dx * dx + dy * dy
                  IN  IF \/ isNaN(other.segments[1].x) \/ isNaN(other.segments[1].y)
                         \/ isNaN(head.x) \/ isNaN(head.y)
                      THEN avoidOpponents(td, head, self, allSnakes, j + 1)
                      ELSE
                      IF d2 < (120 * SCALE) * (120 * SCALE) /\ d2 > 0
                      THEN avoidOpponents(IF isNaN(td) THEN NaN
                                          ELSE Quot(td + Atan2(-dy, -dx), 2),
                                          head, self, allSnakes, j + 1)
                      ELSE avoidOpponents(td, head, self, allSnakes, j + 1)

\* updateAIDirection(ai, allSnakes, orbs) for the snake at index self.
\* Result: the snake and the generator after the boost draw, if one was made.
updateAIDirection(self, allSnakes, orbs, seed) ==
    LET ai == allSnakes[self]
    IN  IF ~ai.alive \/ Len(ai.segments) = 0 THEN [snake |-> ai, rng |-> seed]
        ELSE
        LET head == ai.segments[1]
            c    == closestOrbIndex(orbs, head)
            td1  == IF c # 0 /\ Dist2(orbs[c].x, orbs[c].y, head.x, head.y) > 0
                    THEN Atan2(orbs[c].y - head.y, orbs[c].x - head.x)
                    ELSE ai.targetDirection
            td2  == avoidOpponents(td1, head, self, allSnakes, 1)
            edgeMargin == 200 * SCALE
            td3  == IF isNaN(head.x) THEN td2
                    ELSE IF head.x < edgeMargin THEN 0
                    ELSE IF head.x > ARENA_WIDTH * SCALE - edgeMargin THEN PI
                    ELSE td2
            td4  == IF isNaN(head.y) THEN td3
                    ELSE IF head.y < edgeMargin THEN PI \div 2
                    ELSE IF head.y > ARENA_HEIGHT * SCALE - edgeMargin THEN -(PI \div 2)
                    ELSE td3
            aimed == [ai EXCEPT !.targetDirection = td4]
            draw  == rngNext(seed)
        IN  IF ai.boostTime = 0
            THEN [snake |-> IF draw * 100 < RNG_MOD THEN startBoost(aimed) ELSE aimed,
                  rng   |-> draw]
            ELSE [snake |-> aimed, rng |-> seed]

\* The AI stage of a tick: player2 when it is the BOT (or an AI_ address),
\* then every auxiliary AI snake, each if alive.
RECURSIVE updateAIs(_, _, _, _)
updateAIs(allSnakes, orbs, seed, j) ==
    IF j > Len(allSnakes) THEN [snakes |-> allSnakes, rng |-> seed]
    ELSE IF allSnakes[j].alive /\ (j > 2 \/ (j = 2 /\ isAIAddress(allSnakes[j].address)))
         THEN LET r == updateAIDirection(j, allSnakes, orbs, seed)
              IN  updateAIs([allSnakes EXCEPT ![j] = r.snake], orbs, r.rng, j + 1)
         ELSE updateAIs(allSnakes, orbs, seed, j + 1)

\* ------------------------------------------------------------------------
\* Collisions (engine.ts: checkOrbCollisions, checkSnakeCollisions)
\* ------------------------------------------------------------------------
\* Whether a head is within pickup range of an orb: dist < 15 + orb.size * 3.
inPickupRange(head, orb) ==
    /\ ~(isNaN(head.x) \/ isNaN(head.y) \/ isNaN(orb.x) \/ isNaN(orb.y))
    /\ Dist2(head.x, head.y, orb.x, orb.y)
          < ((15 + orb.size * 3) * SCALE) * ((15 + orb.size * 3) * SCALE)

RECURSIVE sumValues(_, _)
sumValues(orbs, i) ==
    IF i > Len(orbs) THEN 0 ELSE orbs[i].value + sumValues(orbs, i + 1)

\* Orb collisions in which an orb feeds every snake that reaches it.
feedEveryone(allSnakes, orbs, j) ==
    [snakes |-> [k \in DOMAIN allSnakes |->
                    IF ~allSnakes[k].alive \/ Len(allSnakes[k].segments) = 0
                    THEN allSnakes[k]
                    ELSE LET eaten == SelectSeq(orbs, LAMBDA o :
                                         inPickupRange(allSnakes[k].segments[1], o))
                         IN  [allSnakes[k] EXCEPT
                                !.length = @ + sumValues(eaten, 1),
                                !.score  = @ + ORB_SCORE_INCREMENT * Len(eaten)]],
     orbs   |-> SelectSeq(orbs, LAMBDA o :
                   \A k \in DOMAIN allSnakes :
                       ~allSnakes[k].alive \/ Len(allSnakes[k].segments) = 0
                       \/ ~inPickupRange(allSnakes[k].segments[1], o))]

\* checkOrbCollisions(state, allSnakes): the snakes in order, each eating every
\* orb still present that its head reaches.
RECURSIVE checkOrbCollisions(_, _, _)
checkOrbCollisions(allSnakes, orbs, j) ==
    IF j > Len(allSnakes) THEN [snakes |-> allSnakes, orbs |-> orbs]
    ELSE LET snake == allSnakes[j]
         IN  IF ~snake.alive \/ Len(snake.segments) = 0
             THEN checkOrbCollisions(allSnakes, orbs, j + 1)
             ELSE LET head  == snake.segments[1]
                      eaten == SelectSeq(orbs, LAMBDA o : inPickupRange(head, o))
                      left  == IF Len(eaten) = 0 THEN orbs
                               ELSE SelectSeq(orbs, LAMBDA o : ~inPickupRange(head, o))
                  IN  IF Len(eaten) = 0 THEN checkOrbCollisions(allSnakes, orbs, j + 1)
                      ELSE checkOrbCollisions(
                             [allSnakes EXCEPT
                                ![j].length = @ + sumValues(eaten, 1),
                                ![j].score  = @ + ORB_SCORE_INCREMENT * Len(eaten)],
                             left, j + 1)

\* A snake the scan would look at if grace did not protect it.
collidableInGrace(snake) == snake.alive /\ Len(snake.segments) > 0

\* A snake the collision scan looks at: alive, not in grace, with segments.
collidable(snake) ==
    snake.alive /\ ~(snake.graceTime > 0) /\ Len(snake.segments) > 0

\* Head-to-body: the attacker's head within 12 of a defender segment of index >= 3.
hitsBody(head, defender) ==
    \E i \in 4 .. Len(defender.segments) :
        /\ ~(isNaN(head.x) \/ isNaN(head.y))
        /\ ~(isNaN(defender.segments[i].x) \/ isNaN(defender.segments[i].y))
        /\ Dist2(head.x, head.y, defender.segments[i].x, defender.segments[i].y)
              < (12 * SCALE) * (12 * SCALE)

\* A scan that marks a snake for every lethal collision it finds for it.
scanPairAgain(allSnakes, a, d, scan) ==
    LET attacker == allSnakes[a]
        defender == allSnakes[d]
        head     == attacker.segments[1]
        h2       == Dist2(defender.segments[1].x, defender.segments[1].y, head.x, head.y)
    IN  IF d = a \/ ~collidable(defender) THEN scan
        ELSE IF h2 > (MAX_CHECK_DISTANCE * SCALE) * (MAX_CHECK_DISTANCE * SCALE) THEN scan
        ELSE IF h2 < (15 * SCALE) * (15 * SCALE)
             THEN [scan EXCEPT !.toKill = Append(Append(scan.toKill, a), d)]
        ELSE IF hitsBody(head, defender)
             THEN [toKill  |-> Append(scan.toKill, a),
                   killers |-> [scan.killers EXCEPT ![a] = d]]
        ELSE scan

\* A scan in which a head-to-body collision is the end of both snakes.
scanPairBoth(allSnakes, a, d, scan) ==
    LET attacker == allSnakes[a]
        defender == allSnakes[d]
        head     == attacker.segments[1]
        h2       == Dist2(defender.segments[1].x, defender.segments[1].y, head.x, head.y)
        marked(k) == \E n \in 1 .. Len(scan.toKill) : scan.toKill[n] = k
        both     == LET k1 == IF marked(a) THEN scan.toKill ELSE Append(scan.toKill, a)
                    IN  IF d = a \/ marked(d) THEN k1 ELSE Append(k1, d)
    IN  IF d = a \/ ~collidable(defender) THEN scan
        ELSE IF h2 > (MAX_CHECK_DISTANCE * SCALE) * (MAX_CHECK_DISTANCE * SCALE) THEN scan
        ELSE IF h2 < (15 * SCALE) * (15 * SCALE) THEN [scan EXCEPT !.toKill = both]
        ELSE IF hitsBody(head, defender) /\ ~marked(a)
             THEN [toKill  |-> both,
                   killers |-> [scan.killers EXCEPT ![a] = d]]
        ELSE scan

\* One (attacker, defender) pair of the scan.  scan = [toKill, killers]:
\* toKill the indices marked so far, in order; killers[a] the defender credited
\* with a's death, 0 for none.
scanPair(allSnakes, a, d, scan) ==
    LET attacker == allSnakes[a]
        defender == allSnakes[d]
        head     == attacker.segments[1]
        h2       == Dist2(defender.segments[1].x, defender.segments[1].y, head.x, head.y)
        \* the distance of the heads is a number: a NaN fails both head tests
        known    == ~(\/ isNaN(head.x) \/ isNaN(head.y)
                      \/ isNaN(defender.segments[1].x) \/ isNaN(defender.segments[1].y))
        marked(k) == \E n \in 1 .. Len(scan.toKill) : scan.toKill[n] = k
    IN  IF d = a \/ ~collidable(defender) THEN scan
        ELSE IF known /\ h2 > (MAX_CHECK_DISTANCE * SCALE) * (MAX_CHECK_DISTANCE * SCALE)
             THEN scan
        ELSE IF known /\ h2 < (15 * SCALE) * (15 * SCALE)
             THEN LET k1 == IF marked(a) THEN scan.toKill ELSE Append(scan.toKill, a)
                      k2 == IF d = a \/ marked(d) THEN k1 ELSE Append(k1, d)
                  IN  [scan EXCEPT !.toKill = k2]
        ELSE IF hitsBody(head, defender) /\ ~marked(a)
             THEN [toKill  |-> Append(scan.toKill, a),
                   killers |-> [scan.killers EXCEPT ![a] = d]]
        ELSE scan


RECURSIVE scanDefenders(_, _, _, _)
scanDefenders(allSnakes, a, d, scan) ==
    IF d > Len(allSnakes) THEN scan
    ELSE LET next == scanPair(allSnakes, a, d, scan)
         IN  IF Forced(next) THEN scanDefenders(allSnakes, a, d + 1, next) ELSE scan

RECURSIVE scanAttackers(_, _, _)
scanAttackers(allSnakes, a, scan) ==
    IF a > Len(allSnakes) THEN scan
    ELSE IF ~collidable(allSnakes[a]) THEN scanAttackers(allSnakes, a + 1, scan)
    ELSE LET next == scanDefenders(allSnakes, a, 1, scan)
         IN  IF Forced(next) THEN scanAttackers(allSnakes, a + 1, next) ELSE scan

\* The pairwise scan of checkSnakeCollisions: who dies, and who is credited.
collisionScan(allSnakes) ==
    scanAttackers(allSnakes, 1,
                  [toKill |-> <<>>, killers |-> [k \in 1 .. Len(allSnakes) |-> 0]])

\* The medium orbs of convertSnakeToOrbs: for (i = 1; i < n; i += step).
RECURSIVE bodyOrbs(_, _, _, _, _, _)
bodyOrbs(snake, i, step, seed, now, acc) ==
    IF i >= Len(snake.segments) THEN [orbs |-> acc, rng |-> seed]
    ELSE LET s1 == rngNext(seed)
             s2 == rngNext(s1)
             o  == [id    |-> <<"death", snake.address, i, now>>,
                    x     |-> IF isNaN(snake.segments[i + 1].x) THEN NaN
                              ELSE snake.segments[i + 1].x + rngScale(s1, 10 * SCALE)
                                   - 5 * SCALE,
                    y     |-> IF isNaN(snake.segments[i + 1].y) THEN NaN
                              ELSE snake.segments[i + 1].y + rngScale(s2, 10 * SCALE)
                                   - 5 * SCALE,
                    size  |-> 2,
                    value |-> 6 * SCALE,
                    color |-> snake.color]
         IN  bodyOrbs(snake, i + step, step, s2, now, Append(acc, o))

\* A death that leaves nothing behind.
leavesNoOrbs(snake, seed, now) == [orbs |-> <<>>, rng |-> seed]

\* A conversion that keeps every segment.
convertEverySegment(snake, seed, now) ==
    IF Len(snake.segments) = 0 THEN [orbs |-> <<>>, rng |-> seed]
    ELSE bodyOrbs(snake, 1, 1, seed, now,
                  << [id    |-> <<"death", snake.address, -1, now>>,
                      x     |-> snake.segments[1].x,
                      y     |-> snake.segments[1].y,
                      size  |-> 3,
                      value |-> 9 * SCALE,
                      color |-> snake.color] >>)

\* convertSnakeToOrbs(snake); now is Date.now().
convertSnakeToOrbs(snake, seed, now) ==
    IF Len(snake.segments) = 0 THEN [orbs |-> <<>>, rng |-> seed]
    ELSE bodyOrbs(snake, 1, Max(1, Len(snake.segments) \div 20), seed, now,
                  << [id    |-> <<"death", snake.address, -1, now>>,
                      x     |-> snake.segments[1].x,
                      y     |-> snake.segments[1].y,
                      size  |-> 3,
                      value |-> 9 * SCALE,
                      color |-> snake.color] >>)

\* The death loop of checkSnakeCollisions: for (const dead of toKill).
RECURSIVE resolveDeaths(_, _, _, _, _, _, _)
resolveDeaths(allSnakes, orbs, scan, n, gameTime, seed, now) ==
    IF n > Len(scan.toKill) THEN [snakes |-> allSnakes, orbs |-> orbs, rng |-> seed]
    ELSE LET dead   == scan.toKill[n]
             conv   == convertSnakeToOrbs(allSnakes[dead], seed, now)
             killer == scan.killers[dead]
             bonus  == ((allSnakes[dead].length * 15) \div (100 * SCALE)) * SCALE
             s1     == IF killer = 0 THEN allSnakes
                       ELSE [allSnakes EXCEPT ![killer].kills  = @ + 1,
                                              ![killer].length = @ + bonus]
             s2     == [s1 EXCEPT ![dead].alive       = FALSE,
                                  ![dead].respawnTime = gameTime + RESPAWN_DELAY_MS,
                                  ![dead].boostTime   = 0,
                                  ![dead].segments    = <<>>]
         IN  resolveDeaths(s2, orbs \o conv.orbs, scan, n + 1, gameTime, conv.rng, now)

\* checkSnakeCollisions(state, allSnakes)
checkSnakeCollisions(allSnakes, orbs, gameTime, seed, now) ==
    resolveDeaths(allSnakes, orbs, collisionScan(allSnakes), 1, gameTime, seed, now)

\* A respawn that starts the snake's standing afresh.
respawnSnakeAfresh(snake, seed) ==
    [snake |-> [snake EXCEPT !.alive = TRUE, !.score = 0, !.kills = 0,
                             !.length = INITIAL_LENGTH * SCALE,
                             !.segments = initialSegments(200 * SCALE, 200 * SCALE, 0),
                             !.graceTime = RESPAWN_GRACE_MS, !.boostTime = 0],
     rng |-> seed]

\* ------------------------------------------------------------------------
\* Respawn, winner, tick (engine.ts: respawnSnake, determineWinner, processTick)
\* ------------------------------------------------------------------------
\* respawnSnake(snake)
respawnSnake(snake, seed) ==
    LET s1 == rngNext(seed)
        s2 == rngNext(s1)
        s3 == rngNext(s2)
        spawnX   == 200 * SCALE + rngScale(s1, (ARENA_WIDTH - 400) * SCALE)
        spawnY   == 200 * SCALE + rngScale(s2, (ARENA_HEIGHT - 400) * SCALE)
        spawnDir == rngScale(s3, 2 * PI)
    IN  [snake |-> [snake EXCEPT
                      !.segments        = initialSegments(spawnX, spawnY, spawnDir),
                      !.direction       = spawnDir,
                      !.targetDirection = spawnDir,
                      !.length          = INITIAL_LENGTH * SCALE,
                      !.speed           = (BASE_SPEED * SCALE * 3) \div 2,
                      !.alive           = TRUE,
                      !.graceTime       = RESPAWN_GRACE_MS,
                      !.boostTime       = 0],
         rng |-> s3]

\* The respawn stage: every dead snake whose respawnTime has passed, in order.
RECURSIVE respawnAll(_, _, _, _)
respawnAll(allSnakes, gameTime, seed, j) ==
    IF j > Len(allSnakes) THEN [snakes |-> allSnakes, rng |-> seed]
    ELSE IF ~allSnakes[j].alive /\ gameTime >= allSnakes[j].respawnTime
         THEN LET r == respawnSnake(allSnakes[j], seed)
              IN  respawnAll([allSnakes EXCEPT ![j] = r.snake], gameTime, r.rng, j + 1)
         ELSE respawnAll(allSnakes, gameTime, seed, j + 1)

\* The winner by length, score and kills, a dead snake's length counted in full.
determineWinnerByLength(state) ==
    IF state.player1.length > state.player2.length THEN state.player1.address
    ELSE IF state.player2.length > state.player1.length THEN state.player2.address
    ELSE IF state.player1.score > state.player2.score THEN state.player1.address
    ELSE IF state.player2.score > state.player1.score THEN state.player2.address
    ELSE IF state.player1.kills > state.player2.kills THEN state.player1.address
    ELSE IF state.player2.kills > state.player1.kills THEN state.player2.address
    ELSE "null"

\* determineWinner(state): "null" stands for null.
determineWinner(state) ==
    LET p1Len == IF state.player1.alive THEN state.player1.length ELSE 0
        p2Len == IF state.player2.alive THEN state.player2.length ELSE 0
    IN  IF p1Len > p2Len THEN state.player1.address
        ELSE IF p2Len > p1Len THEN state.player2.address
        ELSE IF state.player1.score > state.player2.score THEN state.player1.address
        ELSE IF state.player2.score > state.player1.score THEN state.player2.address
        ELSE IF state.player1.kills > state.player2.kills THEN state.player1.address
        ELSE IF state.player2.kills > state.player1.kills THEN state.player2.address
        ELSE "null"

\* getAllSnakes(state): player 1, player 2, then the AI roster.
getAllSnakes(state) == <<state.player1, state.player2>> \o state.aiSnakes

\* The state with its snakes taken back from the list of getAllSnakes.
withSnakes(state, allSnakes) ==
    [state EXCEPT !.player1  = allSnakes[1],
                  !.player2  = allSnakes[2],
                  !.aiSnakes = SubSeq(allSnakes, 3, Len(allSnakes))]

\* Move every living snake: for (const snake of allSnakes) if (snake.alive) updateSnake.
RECURSIVE moveAll(_, _, _)
moveAll(allSnakes, deltaMs, j) ==
    IF j > Len(allSnakes) THEN allSnakes
    ELSE IF allSnakes[j].alive
         THEN moveAll([allSnakes EXCEPT ![j] = updateSnake(allSnakes[j], deltaMs)],
                      deltaMs, j + 1)
         ELSE moveAll(allSnakes, deltaMs, j + 1)

\* A spawner that looks at the clock only.
tickSpawnedAlways(timed, fought, mr) ==
    IF timed.gameTime - timed.lastOrbSpawn > ORB_SPAWN_RATE
    THEN [state  |-> [withSnakes(timed, fought.snakes) EXCEPT
                        !.orbs = Append(fought.orbs, spawnOrb(fought.rng, mr).orb),
                        !.lastOrbSpawn = timed.gameTime],
          rng    |-> rngSkip4(fought.rng),
          random |-> mr + 1,
          threw  |-> FALSE]
    ELSE [state  |-> [withSnakes(timed, fought.snakes) EXCEPT !.orbs = fought.orbs],
          rng    |-> fought.rng,
          random |-> mr,
          threw  |-> FALSE]

\* The end of processTick, the orb spawn: the tick's result once the
\* collisions of the tick are `fought`.
tickSpawned(timed, fought, mr) ==
    IF /\ timed.gameTime - timed.lastOrbSpawn > ORB_SPAWN_RATE
       /\ Len(fought.orbs) < (ORB_COUNT * 3) \div 2
    THEN [state  |-> [withSnakes(timed, fought.snakes) EXCEPT
                        !.orbs = Append(fought.orbs, spawnOrb(fought.rng, mr).orb),
                        !.lastOrbSpawn = timed.gameTime],
          rng    |-> rngSkip4(fought.rng),
          random |-> mr + 1,
          threw  |-> FALSE]
    ELSE [state  |-> [withSnakes(timed, fought.snakes) EXCEPT !.orbs = fought.orbs],
          rng    |-> fought.rng,
          random |-> mr,
          threw  |-> FALSE]

\* processTick from the snake collisions on: `fed` is the snakes and the
\* orbs once the orb collisions are checked.
tickFed(timed, fed, seed, mr, now) ==
    tickSpawned(timed,
                checkSnakeCollisions(fed.snakes, fed.orbs, timed.gameTime, seed, now),
                mr)

\* processTick from the movement on: `aimed` is the snakes and the generator
\* once the AI directions are updated.
tickMoved(timed, aimed, clampedDelta, mr, now) ==
    tickFed(timed,
            checkOrbCollisions(moveAll(aimed.snakes, clampedDelta, 1), timed.orbs, 1),
            aimed.rng, mr, now)

\* The address of a player whose join_lobby carried none: undefined.
NoAddress == "undefined"

\* processTick from the AI update on: `spawned` is the snakes and the
\* generator once the respawns are done.  state.player2.address.startsWith
\* (line 139) throws a TypeError when player 2 has no address: the state
\* object then keeps what the call has written to it so far.
tickAimed(timed, spawned, clampedDelta, mr, now) ==
    IF timed.player2.address = NoAddress
    THEN [state  |-> withSnakes(timed, spawned.snakes),
          rng    |-> spawned.rng,
          random |-> mr,
          threw  |-> TRUE]
    ELSE tickMoved(timed, updateAIs(spawned.snakes, timed.orbs, spawned.rng, 1),
                   clampedDelta, mr, now)

\* A processTick that runs the whole tick and marks the end after it.
tickTimedLate(timed, wasEnded, clampedDelta, seed, mr, now) ==
    LET r == tickAimed(timed, respawnAll(getAllSnakes(timed), timed.gameTime, seed, 1),
                       clampedDelta, mr, now)
    IN  IF timed.gameTime >= MATCH_DURATION_MS /\ ~wasEnded
        THEN [r EXCEPT !.state.matchEnded = TRUE, !.state.winner = determineWinner(r.state)]
        ELSE r

\* processTick once gameTime and tick are advanced.
tickTimed(timed, wasEnded, clampedDelta, seed, mr, now) ==
    IF timed.gameTime >= MATCH_DURATION_MS /\ ~wasEnded
    THEN [state  |-> [timed EXCEPT !.matchEnded = TRUE, !.winner = determineWinner(timed)],
          rng    |-> seed,
          random |-> mr,
          threw  |-> FALSE]
    ELSE tickAimed(timed, respawnAll(getAllSnakes(timed), timed.gameTime, seed, 1),
                   clampedDelta, mr, now)

\* A processTick that takes the elapsed time as reported.
processTickUnclamped(state, deltaMs, seed, mr, now) ==
    tickTimed([state EXCEPT !.gameTime = @ + deltaMs, !.tick = @ + 1],
              state.matchEnded, Min(Max(deltaMs, 0), MAX_DELTA_MS), seed, mr, now)

\* processTick(state, deltaMs).  seed is the module's generator `rng`, mr the
\* state of Math.random(), now the value of Date.now() during the call.
\* Result: the new state, generator and Math.random() state, and whether the
\* call threw instead of returning (state is then the object as the call
\* left it).
processTick(state, deltaMs, seed, mr, now) ==
    tickTimed([state EXCEPT !.gameTime = @ + Min(Max(deltaMs, 0), MAX_DELTA_MS),
                            !.tick = @ + 1],
              state.matchEnded, Min(Max(deltaMs, 0), MAX_DELTA_MS), seed, mr, now)

\* ========================================================================
\* The server (index.ts)
\* ========================================================================
\* The clients: two connections, each with the wallet address it puts in its
\* messages.  io.on("connection") changes nothing the server keeps, so the
\* clients are connected from the start.
Sockets == {"s1", "s2"}
walletOf == [s \in Sockets |-> IF s = "s1" THEN "0xA" ELSE "0xB"]
Addresses == {walletOf[s] : s \in Sockets}
StakeTiers == {"1000000", "5000000", "25000000"}
StakeInputs == {"1000000", "42"}
\* What `queues` inherits from Object.prototype: queues[stake] is a function
\* or an object, not undefined, for these values of stake.
ObjectPrototypeKeys == {"constructor", "toString", "valueOf", "hasOwnProperty", "__proto__"}
Modes == {"multiplayer", "bot"}
\* <<mouseX, mouseY, canvasWidth, canvasHeight>>
MouseInputs == { <<400, 0, 800, 600>> }
\* The setInterval period (index.ts, line 417).
TICK_PERIOD_MS == 50
\* Wall-clock time between two timer callbacks, ms; a negative value is a
\* clock set back, a large one a stalled event loop.
Elapsed == {-20, TICK_PERIOD_MS, 130}

\* Bounds of the model: the matches created, the state_update messages sent
\* for a match, the errors the timer callback of a match has caught.
MaxMatches == 1
MaxUpdates == 2
MaxErrors == 2

VARIABLES
    sockets,         \* socket id -> "open" | "closed"
    queues,          \* const queues: stake tier -> queue of QueuedPlayer
    games,           \* the game objects, by match id, that the Map or a timer holds
    activeGames,     \* const activeGames: the Map's keys, in insertion order
    timers,          \* the live setInterval callbacks: match id -> [lastTickTime, errors logged]
    matchSignatures, \* const matchSignatures: match id -> the signatures given
    leaderboard,     \* const leaderboard: address -> LeaderboardEntry
    rooms,           \* socket.io rooms: match id -> the sockets that joined it
    rng,             \* engine.ts `let rng`: the seed of the one SeededRandom
    mathRandom,      \* the state of Math.random(): the number of the next draw
    now,             \* Date.now(), ms since the server started
    emitted,         \* match_found, state_update and game_over sent, per match id, in order
    notices,         \* opponent_signed / waiting_for_opponent_signature sent: <<matchId, event>>
    runs,            \* engine processes observed next to each other: run id -> [state, rng, ...]
    escrow           \* the deployed Escrow contract: its storage, the ether held, the last call

serverVars == <<sockets, queues, games, activeGames, timers, matchSignatures, leaderboard,
                rooms, rng, mathRandom, now, emitted, notices>>
vars == <<serverVars, runs, escrow>>

\* ------------------------------------------------------------------------
\* Strings as character codes
\* ------------------------------------------------------------------------
RECURSIVE Digits(_)
\* The decimal digits of n >= 0, as character codes.
Digits(n) == IF n < 10 THEN <<48 + n>> ELSE Digits(n \div 10) \o <<48 + (n % 10)>>

\* One base-36 digit as a character code: 0-9, a-z.
Base36Char(d) == IF d < 10 THEN 48 + d ELSE 87 + d

\* Math.random().toString(36).slice(2, 7): five base-36 digits of the draw mr.
RandomSuffix(mr) ==
    << Base36Char((mr \div 1679616) % 36), Base36Char((mr \div 46656) % 36),
       Base36Char((mr \div 1296) % 36), Base36Char((mr \div 36) % 36),
       Base36Char(mr % 36) >>

\* `match_${Date.now()}_${Math.random().toString(36).slice(2, 7)}`
multiplayerMatchId(t, mr) ==
    <<109, 97, 116, 99, 104, 95>> \o Digits(t) \o <<95>> \o RandomSuffix(mr)

\* `bot_match_${Date.now()}_${Math.random().toString(36).slice(2, 7)}`
botMatchId(t, mr) ==
    <<98, 111, 116, 95, 109, 97, 116, 99, 104, 95>> \o Digits(t) \o <<95>> \o RandomSuffix(mr)

\* ------------------------------------------------------------------------
\* Leaderboard (index.ts: updateLeaderboard)
\* ------------------------------------------------------------------------
newEntry(address) ==
    [address |-> address, wins |-> 0, losses |-> 0, kills |-> 0, bestLength |-> 0,
     bestScore |-> 0, totalGames |-> 0, lastProofHash |-> <<>>, lastUpdated |-> 0]

\* record[address] || 0
orZero(record, address) == IF address \in DOMAIN record THEN record[address] ELSE 0

getEntry(lb, address) == IF address \in DOMAIN lb THEN lb[address] ELSE newEntry(address)

setEntry(lb, address, entry) ==
    [a \in DOMAIN lb \cup {address} |-> IF a = address THEN entry ELSE lb[a]]

\* updateLeaderboard(finalState) at Date.now() = t.  The proof hash is the hex
\* of the first 8 characters of matchId + Date.now().
updateLeaderboard(lb, finalState, t) ==
    LET proofHash == SubSeq(finalState.matchId \o Digits(t), 1, 8)
        winner == finalState.winner
        loser  == finalState.loser
        w0  == getEntry(lb, winner)
        lb1 == IF winner \notin {"null", NoAddress} /\ winner # "BOT"
               THEN setEntry(lb, winner,
                      [w0 EXCEPT !.wins = @ + 1,
                                 !.totalGames = @ + 1,
                                 !.kills = @ + orZero(finalState.finalKills, winner),
                                 !.bestLength = Max(@, orZero(finalState.finalLengths, winner)),
                                 !.bestScore = Max(@, orZero(finalState.finalScores, winner)),
                                 !.lastProofHash = proofHash,
                                 !.lastUpdated = t])
               ELSE lb
        l0  == getEntry(lb1, loser)
    IN  IF loser \notin {"null", NoAddress} /\ loser # "BOT"
        THEN setEntry(lb1, loser,
               [l0 EXCEPT !.losses = @ + 1,
                          !.totalGames = @ + 1,
                          !.kills = @ + orZero(finalState.finalKills, loser),
                          !.bestLength = Max(@, orZero(finalState.finalLengths, loser)),
                          !.bestScore = Max(@, orZero(finalState.finalScores, loser)),
                          !.lastUpdated = t])
        ELSE lb1

\* { [p1.address]: v1, [p2.address]: v2 }: the later key wins when both are equal.
byAddress(state, v1, v2) ==
    (state.player2.address :> v2) @@ (state.player1.address :> v1)

\* The FinalGameState the three ending paths build.
finalStateOf(matchId, game, winner, loser, matchType, t) ==
    [matchId      |-> matchId,
     player1      |-> game.state.player1.address,
     player2      |-> game.state.player2.address,
     winner       |-> winner,
     loser        |-> loser,
     finalScores  |-> byAddress(game.state, game.state.player1.score, game.state.player2.score),
     finalLengths |-> byAddress(game.state, game.state.player1.length, game.state.player2.length),
     finalKills   |-> byAddress(game.state, game.state.player1.kills, game.state.player2.kills),
     stakeAmount  |-> game.stake,
     duration     |-> t - game.startTime,
     matchType    |-> matchType]

\* ------------------------------------------------------------------------
\* Maps
\* ------------------------------------------------------------------------
Put(f, k, v) == [x \in DOMAIN f \cup {k} |-> IF x = k THEN v ELSE f[x]]
Drop(f, k) == [x \in DOMAIN f \ {k} |-> f[x]]
Keys(seq) == {seq[i] : i \in 1..Len(seq)}
\* A delete that removes nothing.
WithoutNothing(seq, k) == seq
\* Map.delete(k) on the keys.
Without(seq, k) == SelectSeq(seq, LAMBDA x : x # k)

\* activeGames.has(matchId)
hasGame(matchId) == matchId \in Keys(activeGames)

\* The game objects still referenced: by the Map or by a live timer callback.
Referenced(gs, active, tm) == [m \in Keys(active) \cup DOMAIN tm |-> gs[m]]

\* Every match id the server has announced; clients can name these, and one
\* id no match ever had.
UnknownMatchId == <<63>>
MatchIds == DOMAIN emitted \cup {UnknownMatchId}

\* What a state_update carries, kept in the log of what was sent.
stateUpdate(to, state) ==
    [event |-> "state_update", to |-> to, tick |-> state.tick, gameTime |-> state.gameTime,
     matchEnded |-> state.matchEnded, winner |-> state.winner]

\* An ending announced by one more state_update.
gameOverAsUpdate(to, finalState) ==
    [event |-> "state_update", to |-> to, tick |-> 0, gameTime |-> finalState.duration,
     matchEnded |-> TRUE, winner |-> finalState.winner]

gameOver(to, finalState) == [event |-> "game_over", to |-> to, finalState |-> finalState]

matchFound(to, opponent, stake, role) ==
    [event |-> "match_found", to |-> to, opponent |-> opponent, stake |-> stake, role |-> role]

\* The number of state_update messages sent for matchId.
updatesSent(matchId) ==
    Len(SelectSeq(emitted[matchId], LAMBDA e : e.event = "state_update"))

\* io.to(matchId): the sockets in the room now.
roomOf(matchId) == IF matchId \in DOMAIN rooms THEN rooms[matchId] ELSE {}

\* ------------------------------------------------------------------------
\* socket.on("join_lobby")
\* ------------------------------------------------------------------------
join_lobby_bot(s, address, stake) ==
    \E matchId \in {botMatchId(now, mathRandom)} :
    \E init \in {createInitialState(address, "BOT", matchId, TRUE, mathRandom + 1)} :
    LET game == [state |-> init.state, player1Socket |-> "", player2Socket |-> "BOT",
                 player1Address |-> address, player2Address |-> "BOT",
                 startTime |-> now, stake |-> stake, interval |-> FALSE,
                 isBotMode |-> TRUE]
    IN  /\ emitted' = Put(emitted, matchId, <<matchFound({s}, "BOT", stake, "p1")>>)
        /\ games' = Put(games, matchId, game)
        /\ activeGames' = Append(Without(activeGames, matchId), matchId)
        /\ rng' = init.rng
        /\ mathRandom' = init.random
        /\ UNCHANGED <<sockets, queues, timers, matchSignatures, leaderboard, rooms, now,
                       notices>>

join_lobby_paired(p1, p2, rest, stake) ==
    \E matchId \in {multiplayerMatchId(now, mathRandom)} :
    \E init \in {createInitialState(p1.address, p2.address, matchId, FALSE, mathRandom + 1)} :
    LET game == [state |-> init.state, player1Socket |-> p1.socketId,
                 player2Socket |-> p2.socketId, player1Address |-> p1.address,
                 player2Address |-> p2.address, startTime |-> now,
                 stake |-> stake, interval |-> FALSE, isBotMode |-> FALSE]
    IN  /\ queues' = [queues EXCEPT ![stake] = rest]
        /\ emitted' = Put(emitted, matchId,
                          << matchFound({p1.socketId}, p2.address, stake, "p1"),
                             matchFound({p2.socketId}, p1.address, stake, "p2") >>)
        /\ games' = Put(games, matchId, game)
        /\ activeGames' = Append(Without(activeGames, matchId), matchId)
        /\ rng' = init.rng
        /\ mathRandom' = init.random
        /\ UNCHANGED <<sockets, timers, matchSignatures, leaderboard, rooms, now,
                       notices>>

\* A lobby that queues every player and pairs none.
join_lobby_unpaired(s, address, stake) ==
    /\ queues' = [queues EXCEPT ![stake] =
                    Append(@, [socketId |-> s, address |-> address, stake |-> stake])]
    /\ UNCHANGED <<sockets, games, activeGames, timers, matchSignatures, leaderboard,
                   rooms, rng, mathRandom, now, emitted, notices>>

join_lobby_multiplayer(s, address, stake) ==
    LET queued == Append(queues[stake], [socketId |-> s, address |-> address, stake |-> stake])
    IN  IF Len(queued) >= 2
        THEN join_lobby_paired(queued[1], queued[2], SubSeq(queued, 3, Len(queued)), stake)
        ELSE /\ queues' = [queues EXCEPT ![stake] = queued]
             /\ UNCHANGED <<sockets, games, activeGames, timers, matchSignatures, leaderboard,
                            rooms, rng, mathRandom, now, emitted, notices>>

join_lobby(s, address, stake, mode) ==
    /\ sockets[s] = "open"
    /\ Cardinality(DOMAIN emitted) < MaxMatches
    /\ IF stake \notin DOMAIN queues \cup ObjectPrototypeKeys
       THEN UNCHANGED vars                  \* !queues[stake]: logged and dropped
       ELSE IF mode = "bot" THEN join_lobby_bot(s, address, stake)
       ELSE IF stake \notin DOMAIN queues
       THEN UNCHANGED vars                  \* queues[stake].push is not a function
       ELSE join_lobby_multiplayer(s, address, stake)

\* ------------------------------------------------------------------------
\* socket.on("match_signature")
\* ------------------------------------------------------------------------
match_signature(s, matchId, address) ==
    /\ sockets[s] = "open"
    /\ IF ~hasGame(matchId) THEN UNCHANGED vars
       ELSE
       LET game       == games[matchId]
           signatures == IF matchId \in DOMAIN matchSignatures THEN matchSignatures[matchId]
                         ELSE {}
           signed     == IF address = game.player1Address THEN signatures \cup {"player1"}
                         ELSE signatures \cup {"player2"}
       IN  /\ IF address # game.player1Address /\ address # game.player2Address
              THEN /\ matchSignatures' = Put(matchSignatures, matchId, signatures)
                   /\ UNCHANGED notices
              ELSE IF signed = {"player1", "player2"}
              THEN /\ matchSignatures' = Drop(matchSignatures, matchId)
                   /\ notices' = notices \cup {<<matchId, "opponent_signed">>}
              ELSE /\ matchSignatures' = Put(matchSignatures, matchId, signed)
                   /\ notices' = notices \cup {<<matchId, "waiting_for_opponent_signature">>}
           /\ UNCHANGED <<sockets, queues, games, activeGames, timers, leaderboard, rooms,
                          rng, mathRandom, now, emitted>>

\* ------------------------------------------------------------------------
\* socket.on("ready_to_start") and the setInterval callback it installs
\* ------------------------------------------------------------------------
\* A handler that starts a timer whenever the players are ready.
ready_to_restart(s, matchId, address) ==
    /\ sockets[s] = "open"
    /\ IF ~hasGame(matchId) THEN UNCHANGED vars
       ELSE /\ rooms' = Put(rooms, matchId, roomOf(matchId) \cup {s})
            /\ games' = [games EXCEPT ![matchId].player1Socket = s,
                                      ![matchId].startTime = now,
                                      ![matchId].interval = TRUE]
            /\ timers' = Put(timers, matchId, [lastTickTime |-> now, errors |-> 0])
            /\ emitted' = [emitted EXCEPT ![matchId] =
                             Append(@, stateUpdate(roomOf(matchId) \cup {s},
                                                   games[matchId].state))]
            /\ UNCHANGED <<sockets, queues, activeGames, matchSignatures, leaderboard,
                           rng, mathRandom, now, notices>>

ready_to_start(s, matchId, address) ==
    /\ sockets[s] = "open"
    /\ IF ~hasGame(matchId) THEN UNCHANGED vars
       ELSE
       LET game   == games[matchId]
           joined == roomOf(matchId) \cup {s}
           mapped == IF address = game.player1Address
                     THEN [game EXCEPT !.player1Socket = s]
                     ELSE IF address = game.player2Address /\ game.player2Address # "BOT"
                     THEN [game EXCEPT !.player2Socket = s]
                     ELSE game
           bothPlayersReady == /\ mapped.player1Socket # ""
                               /\ (mapped.player2Socket # "" \/ mapped.player2Address = "BOT")
       IN  /\ rooms' = Put(rooms, matchId, joined)
           /\ IF bothPlayersReady /\ ~mapped.interval
              THEN /\ games' = [games EXCEPT ![matchId] =
                                  [mapped EXCEPT !.startTime = now, !.interval = TRUE]]
                   /\ timers' = Put(timers, matchId, [lastTickTime |-> now, errors |-> 0])
                   /\ emitted' = [emitted EXCEPT ![matchId] =
                                    Append(@, stateUpdate(joined, mapped.state))]
              ELSE /\ games' = [games EXCEPT ![matchId] = mapped]
                   /\ UNCHANGED <<timers, emitted>>
           /\ UNCHANGED <<sockets, queues, activeGames, matchSignatures, leaderboard,
                          rng, mathRandom, now, notices>>

\* A callback whose error ends its timer.
uncaught(tm, matchId, t) == Drop(tm, matchId)

\* The timers once the callback of matchId has caught an error at time t:
\* lastTickTime was assigned before processTick was called, the catch block
\* logs the error.
caught(tm, matchId, t) ==
    [tm EXCEPT ![matchId].lastTickTime = t, ![matchId].errors = @ + 1]

\* One firing of the interval of matchId, `elapsed` ms after the previous
\* reading of the clock.
Tick(matchId, elapsed) ==
    /\ matchId \in DOMAIN timers
    /\ updatesSent(matchId) < MaxUpdates
    /\ timers[matchId].errors < MaxErrors
    /\ \E t \in {now + elapsed} :
       \E r \in {processTick(games[matchId].state, t - timers[matchId].lastTickTime,
                             rng, mathRandom, t)} :
       LET newState == r.state
           ticked   == [games[matchId] EXCEPT !.state = newState]
           update   == stateUpdate(roomOf(matchId), newState)
       IN  /\ now' = t
           /\ rng' = r.rng
           /\ mathRandom' = r.random
           /\ IF r.threw
              THEN /\ timers' = caught(timers, matchId, t)
                   /\ games' = [games EXCEPT ![matchId] = ticked]
                   /\ UNCHANGED <<activeGames, leaderboard, emitted>>
              ELSE IF newState.matchEnded
              THEN LET loser == IF newState.winner \in {"null", NoAddress} THEN "null"
                                ELSE IF newState.winner = newState.player1.address
                                THEN newState.player2.address
                                ELSE newState.player1.address
                       finalState == finalStateOf(matchId, ticked, newState.winner, loser,
                                                  "time_limit", t)
                   IN  /\ timers' = Drop(timers, matchId)
                       /\ activeGames' = Without(activeGames, matchId)
                       /\ games' = Referenced(
                              [games EXCEPT ![matchId] = [ticked EXCEPT !.interval = FALSE]],
                              activeGames', timers')
                       /\ leaderboard' = updateLeaderboard(leaderboard, finalState, t)
                       /\ emitted' = [emitted EXCEPT ![matchId] =
                              @ \o <<update, gameOver(roomOf(matchId), finalState)>>]
              ELSE /\ timers' = [timers EXCEPT ![matchId].lastTickTime = t]
                   /\ games' = [games EXCEPT ![matchId] = ticked]
                   /\ emitted' = [emitted EXCEPT ![matchId] = Append(@, update)]
                   /\ UNCHANGED <<activeGames, leaderboard>>
           /\ UNCHANGED <<sockets, queues, matchSignatures, rooms, notices>>

\* Handlers that hand the message to the snake of the address, alive or not.
inputTargetAnyone(state, address) ==
    IF state.player1.address = address THEN "player1"
    ELSE IF state.player2.address = address THEN "player2"
    ELSE "none"

\* ------------------------------------------------------------------------
\* socket.on("mouse_move"), socket.on("boost")
\* ------------------------------------------------------------------------
\* The input handlers' choice of snake: player 1's if the address is its and
\* it is alive, else player 2's on the same terms, else none.
inputTarget(state, address) ==
    IF state.player1.address = address /\ state.player1.alive THEN "player1"
    ELSE IF state.player2.address = address /\ state.player2.alive THEN "player2"
    ELSE "none"

\* The game state after mouse_move's setDirection, after boost's startBoost.
steered(state, address, mouse) ==
    IF inputTarget(state, address) = "player1"
    THEN [state EXCEPT !.player1 = setDirection(@, mouse[1], mouse[2], mouse[3], mouse[4])]
    ELSE IF inputTarget(state, address) = "player2"
    THEN [state EXCEPT !.player2 = setDirection(@, mouse[1], mouse[2], mouse[3], mouse[4])]
    ELSE state

boosted(state, address) ==
    IF inputTarget(state, address) = "player1"
    THEN [state EXCEPT !.player1 = startBoost(@)]
    ELSE IF inputTarget(state, address) = "player2"
    THEN [state EXCEPT !.player2 = startBoost(@)]
    ELSE state

mouse_move(s, matchId, address, mouse) ==
    /\ sockets[s] = "open"
    /\ IF ~hasGame(matchId) THEN UNCHANGED games
       ELSE games' = [games EXCEPT ![matchId].state = steered(@, address, mouse)]
    /\ UNCHANGED <<sockets, queues, activeGames, timers, matchSignatures, leaderboard,
                   rooms, rng, mathRandom, now, emitted, notices>>

boost(s, matchId, address) ==
    /\ sockets[s] = "open"
    /\ IF ~hasGame(matchId) THEN UNCHANGED games
       ELSE games' = [games EXCEPT ![matchId].state = boosted(@, address)]
    /\ UNCHANGED <<sockets, queues, activeGames, timers, matchSignatures, leaderboard,
                   rooms, rng, mathRandom, now, emitted, notices>>

\* ------------------------------------------------------------------------
\* socket.on("forfeit")
\* ------------------------------------------------------------------------
\* A forfeit that the sender wins.
forfeitWinnerSelf(state, address) == address

\* const winner (index.ts, line 461): the snake that is not the sender's.
forfeitWinner(state, address) ==
    IF state.player1.address = address THEN state.player2.address
    ELSE state.player1.address

forfeit(s, matchId, address) ==
    /\ sockets[s] = "open"
    /\ IF ~hasGame(matchId) THEN UNCHANGED vars
       ELSE
       LET game   == games[matchId]
           winner == forfeitWinner(game.state, address)
           finalState == finalStateOf(matchId, game, winner, address, "forfeit", now)
       IN  /\ timers' = IF game.interval THEN Drop(timers, matchId) ELSE timers
           /\ activeGames' = Without(activeGames, matchId)
           /\ games' = Referenced([games EXCEPT ![matchId].interval = FALSE],
                                  activeGames', timers')
           /\ leaderboard' = updateLeaderboard(leaderboard, finalState, now)
           /\ emitted' = [emitted EXCEPT ![matchId] =
                            Append(@, gameOver(roomOf(matchId), finalState))]
           /\ UNCHANGED <<sockets, queues, matchSignatures, rooms, rng, mathRandom, now,
                          notices>>

\* ------------------------------------------------------------------------
\* socket.on("disconnect")
\* ------------------------------------------------------------------------
\* A queue that keeps the entries of a connection that is gone.
removeNothing(queue, s) == queue

\* queues[stake] after findIndex / splice(index, 1): without its first entry of s.
RECURSIVE removeFirst(_, _)
removeFirst(queue, s) ==
    IF Len(queue) = 0 THEN queue
    ELSE IF queue[1].socketId = s THEN Tail(queue)
    ELSE <<queue[1]>> \o removeFirst(Tail(queue), s)

\* The sockets that can still be sent to, out of `to`, once s is gone.
reachable(to, s) == {x \in to : x \in Sockets /\ x # s /\ sockets[x] = "open"}

RECURSIVE endGamesOf(_, _, _)
\* The loop over activeGames.entries(): every game that has s as one of its
\* sockets is ended, in the Map's order.  acc holds the variables it writes.
endGamesOf(s, ids, acc) ==
    IF Len(ids) = 0 THEN acc
    ELSE
    LET matchId == ids[1]
        game    == acc.games[matchId]
    IN  IF game.player1Socket # s /\ game.player2Socket # s
        THEN endGamesOf(s, Tail(ids), acc)
        ELSE
        LET winnerAddress == IF game.player1Socket = s THEN game.state.player2.address
                             ELSE game.state.player1.address
            loserAddress  == IF game.player1Socket = s THEN game.state.player1.address
                             ELSE game.state.player2.address
            finalState    == finalStateOf(matchId, game, winnerAddress, loserAddress,
                                          "disconnect", now)
            winnerSocket  == IF game.player1Socket = s THEN game.player2Socket
                             ELSE game.player1Socket
            timersLeft    == IF game.interval THEN Drop(acc.timers, matchId) ELSE acc.timers
            activeLeft    == Without(acc.activeGames, matchId)
        IN  endGamesOf(s, Tail(ids),
              [games       |-> Referenced([acc.games EXCEPT ![matchId].interval = FALSE],
                                          activeLeft, timersLeft),
               activeGames |-> activeLeft,
               timers      |-> timersLeft,
               leaderboard |-> updateLeaderboard(acc.leaderboard, finalState, now),
               emitted     |-> [acc.emitted EXCEPT ![matchId] =
                                  Append(@, gameOver(reachable({winnerSocket}, s),
                                                     finalState))]])

disconnect(s) ==
    /\ sockets[s] = "open"
    /\ sockets' = [sockets EXCEPT ![s] = "closed"]
    /\ queues' = [stake \in DOMAIN queues |-> removeFirst(queues[stake], s)]
    /\ rooms' = [m \in DOMAIN rooms |-> rooms[m] \ {s}]
    /\ \E ended \in {endGamesOf(s, activeGames,
                                  [games |-> games, activeGames |-> activeGames,
                                   timers |-> timers, leaderboard |-> leaderboard,
                                   emitted |-> emitted])} :
           /\ games' = ended.games
           /\ activeGames' = ended.activeGames
           /\ timers' = ended.timers
           /\ leaderboard' = ended.leaderboard
           /\ emitted' = ended.emitted
    /\ UNCHANGED <<matchSignatures, rng, mathRandom, now, notices>>

\* ========================================================================
\* The escrow contract (contracts/Escrow.sol)
\* ========================================================================
\* address(0), the contract's own address, and the externally owned accounts:
\* the deployer, two players and the ClearNode's key.
ZeroAddress == "0x0"
EscrowAddress == "0xEscrow"
Accounts == {"0xOwner", "0xA", "0xB", "0xNode"}
\* The address ecrecover gives for a signature over another message: the
\* address of no key anybody holds.
StrangerAddress == "0xStranger"
\* bytes32 match identifiers, the msg.value of a deposit (wei), and the ether
\* of every account when the contract is deployed.
MatchKeys == {"match-1"}
Stakes == {0, 50, 100}
InitialBalance == 200

\* signedState: 65 bytes, the signature of `signer`'s key over
\* keccak256(abi.encodePacked(matchId, winner)) as an Ethereum signed
\* message, or a byte string of another length.
SignedStates ==
    [signer : {"0xNode", "0xA"}, matchId : MatchKeys, winner : {"0xA", "0xB"}, length : {65}]
        \cup {[signer |-> "0xNode", matchId |-> "match-1", winner |-> "0xB", length |-> 64]}

\* The contract after its constructor: storage zeroed, no ether held.
Deployed ==
    [owner           |-> "0xOwner",
     clearNodeSigner |-> "0xNode",
     matches         |-> [k \in MatchKeys |->
                            [player1 |-> ZeroAddress, player2 |-> ZeroAddress,
                             stake1 |-> 0, stake2 |-> 0, settled |-> FALSE]],
     deposits        |-> [a \in Accounts |-> 0],
     balance         |-> [a \in Accounts \cup {EscrowAddress} |->
                            IF a = EscrowAddress THEN 0 ELSE InitialBalance],
     lastCall        |-> [fn |-> "constructor", matchId |-> "", winner |-> "", result |-> "ok"]]

\* The contract once a call has ended: reverted with `reason`, all its
\* effects undone, or returned with the storage and balances of `done`.
reverted(fn, matchId, winner, reason) ==
    [escrow EXCEPT !.lastCall = [fn |-> fn, matchId |-> matchId, winner |-> winner,
                                 result |-> reason]]
returned(done, fn, matchId, winner) ==
    [done EXCEPT !.lastCall = [fn |-> fn, matchId |-> matchId, winner |-> winner,
                               result |-> "ok"]]

\* Ether moved from one account to another.
transfer(balance, from, to, amount) ==
    [a \in DOMAIN balance |->
        balance[a] - (IF a = from THEN amount ELSE 0) + (IF a = to THEN amount ELSE 0)]

\* depositForMatch(matchId) sent by `sender` with msg.value = value.
depositForMatch(sender, matchId, value) ==
    /\ escrow.balance[sender] >= value
    /\ LET m     == escrow.matches[matchId]
           paid  == [escrow EXCEPT !.balance = transfer(@, sender, EscrowAddress, value)]
       IN  escrow' =
              IF ~(value > 0) THEN reverted("depositForMatch", matchId, "", "Must send value")
              ELSE IF m.player1 = ZeroAddress
              THEN returned([paid EXCEPT !.matches[matchId].player1 = sender,
                                         !.matches[matchId].stake1 = value],
                            "depositForMatch", matchId, "")
              ELSE IF m.player2 # ZeroAddress
              THEN reverted("depositForMatch", matchId, "", "Match full")
              ELSE IF sender = m.player1
              THEN reverted("depositForMatch", matchId, "", "Already joined")
              ELSE returned([paid EXCEPT !.matches[matchId].player2 = sender,
                                         !.matches[matchId].stake2 = value],
                            "depositForMatch", matchId, "")
    /\ UNCHANGED <<serverVars, runs>>

\* _recoverSigner(_toEthSignedMessageHash(keccak256(matchId, winner)), sig) for
\* a signature of 65 bytes: the signer, if that is the message it signed.
recoverSigner(matchId, winner, sig) ==
    IF sig.matchId = matchId /\ sig.winner = winner THEN sig.signer ELSE StrangerAddress

\* The ether settle sends: <<to the winner, to the loser>>.
settlePayout(m) == <<m.stake1 + m.stake2, 0>>

\* The split of a pot with a rake of 2 % kept and 80 % of the rest to the winner.
settleSplit(m) ==
    LET totalPot == m.stake1 + m.stake2
        netPot   == totalPot - (totalPot * 2) \div 100
    IN  <<(netPot * 80) \div 100, netPot - (netPot * 80) \div 100>>

\* A settle that does not look at the settled flag.
settleAgainGuard(m) == FALSE

\* require(!m.settled, "Already settled") fails.
alreadySettled(m) == m.settled

\* settle(matchId, winner, signedState) sent by anyone.
settle(sender, matchId, winner, signedState) ==
    /\ LET m      == escrow.matches[matchId]
           payout == settlePayout(m)
           loser  == IF winner = m.player1 THEN m.player2 ELSE m.player1
       IN  escrow' =
              IF alreadySettled(m) THEN reverted("settle", matchId, winner, "Already settled")
              ELSE IF ~(m.player1 # ZeroAddress /\ m.player2 # ZeroAddress)
              THEN reverted("settle", matchId, winner, "Match not ready")
              ELSE IF ~(winner = m.player1 \/ winner = m.player2)
              THEN reverted("settle", matchId, winner, "Winner not in match")
              ELSE IF signedState.length # 65
              THEN reverted("settle", matchId, winner, "Invalid signature length")
              ELSE IF recoverSigner(matchId, winner, signedState) # escrow.clearNodeSigner
              THEN reverted("settle", matchId, winner, "Invalid ClearNode signature")
              ELSE IF escrow.balance[EscrowAddress] < payout[1] + payout[2]
              THEN reverted("settle", matchId, winner, "Transfer failed")
              ELSE returned([escrow EXCEPT
                               !.matches[matchId].settled = TRUE,
                               !.balance = transfer(transfer(@, EscrowAddress, winner, payout[1]),
                                                    EscrowAddress, loser, payout[2])],
                            "settle", matchId, winner)
    /\ UNCHANGED <<serverVars, runs>>

\* deposit() sent by `sender` with msg.value = value.
deposit(sender, value) ==
    /\ escrow.balance[sender] >= value
    /\ escrow' = returned([escrow EXCEPT !.deposits[sender] = @ + value,
                                         !.balance = transfer(@, sender, EscrowAddress, value)],
                          "deposit", "", "")
    /\ UNCHANGED <<serverVars, runs>>

\* withdraw(payee, amount) sent by `sender`: onlyOwner.
withdraw(sender, payee, amount) ==
    /\ escrow' =
          IF sender # escrow.owner THEN reverted("withdraw", "", "", "Only owner")
          ELSE IF ~(escrow.deposits[payee] >= amount)
          THEN reverted("withdraw", "", "", "Insufficient balance")
          ELSE returned([escrow EXCEPT !.deposits[payee] = @ - amount,
                                       !.balance = transfer(@, EscrowAddress, payee, amount)],
                        "withdraw", "", "")
    /\ UNCHANGED <<serverVars, runs>>

\* setClearNodeSigner(_newSigner) sent by `sender`: onlyOwner.
setClearNodeSigner(sender, newSigner) ==
    /\ escrow' =
          IF sender # escrow.owner THEN reverted("setClearNodeSigner", "", "", "Only owner")
          ELSE IF newSigner = ZeroAddress
          THEN reverted("setClearNodeSigner", "", "", "Invalid signer")
          ELSE returned([escrow EXCEPT !.clearNodeSigner = newSigner],
                        "setClearNodeSigner", "", "")
    /\ UNCHANGED <<serverVars, runs>>

\* ------------------------------------------------------------------------
\* The server from its start
\* ------------------------------------------------------------------------
\* Date.now() when the server starts listening.
StartTimes == {1000}

Init ==
    /\ sockets = [s \in Sockets |-> "open"]
    /\ queues = [stake \in StakeTiers |-> <<>>]
    /\ games = <<>>
    /\ activeGames = <<>>
    /\ timers = <<>>
    /\ matchSignatures = <<>>
    /\ leaderboard = <<>>
    /\ rooms = <<>>
    /\ rng = 0
    /\ mathRandom = 0
    /\ now \in StartTimes
    /\ emitted = <<>>
    /\ notices = {}
    /\ runs = <<>>
    /\ escrow = Deployed

Next ==
    \/ \E s \in Sockets, stake \in StakeInputs, mode \in Modes :
          join_lobby(s, walletOf[s], stake, mode) /\ UNCHANGED <<runs, escrow>>
    \/ \E s \in Sockets, matchId \in MatchIds : match_signature(s, matchId, walletOf[s]) /\ UNCHANGED <<runs, escrow>>
    \/ \E s \in Sockets, matchId \in MatchIds : ready_to_start(s, matchId, walletOf[s]) /\ UNCHANGED <<runs, escrow>>
    \/ \E matchId \in DOMAIN timers, elapsed \in Elapsed : Tick(matchId, elapsed) /\ UNCHANGED <<runs, escrow>>
    \/ \E s \in Sockets, matchId \in MatchIds, mouse \in MouseInputs :
          mouse_move(s, matchId, walletOf[s], mouse) /\ UNCHANGED <<runs, escrow>>
    \/ \E s \in Sockets, matchId \in MatchIds : boost(s, matchId, walletOf[s]) /\ UNCHANGED <<runs, escrow>>
    \/ \E s \in Sockets, matchId \in MatchIds : forfeit(s, matchId, walletOf[s]) /\ UNCHANGED <<runs, escrow>>
    \/ \E s \in Sockets : disconnect(s) /\ UNCHANGED <<runs, escrow>>

Spec == Init /\ [][Next]_vars

\* ------------------------------------------------------------------------
\* The lobby
\* ------------------------------------------------------------------------
\* The stake a join_lobby can name: two of the tiers, a number that is no
\* tier, a name every object has.
LobbyStakes == {"1000000", "5000000", "42", "toString"}

\* The server as long as clients only join the lobby and leave.
NextLobby ==
    \/ \E s \in Sockets, stake \in LobbyStakes, mode \in Modes :
          join_lobby(s, walletOf[s], stake, mode) /\ UNCHANGED <<runs, escrow>>
    \/ \E s \in Sockets : disconnect(s) /\ UNCHANGED <<runs, escrow>>

SpecLobby == Init /\ [][NextLobby]_vars

\* ------------------------------------------------------------------------
\* The start of a match
\* ------------------------------------------------------------------------
\* A match has just been created, for `first` against the BOT or for `first`
\* and `second` paired in the first tier (a player who joined twice is paired
\* with itself); nothing else has happened since the server started.
InitStart ==
    \E t0 \in StartTimes, first \in Sockets, second \in Sockets, isBotMode \in BOOLEAN :
    \E matchId \in {IF isBotMode THEN botMatchId(t0, 0) ELSE multiplayerMatchId(t0, 0)} :
    \E p2Address \in {IF isBotMode THEN "BOT" ELSE walletOf[second]} :
    \E init \in {createInitialState(walletOf[first], p2Address, matchId, isBotMode, 1)} :
        /\ sockets = [s \in Sockets |-> "open"]
        /\ queues = [stake \in StakeTiers |-> <<>>]
        /\ games = (matchId :>
                      [state |-> init.state,
                       player1Socket |-> IF isBotMode THEN "" ELSE first,
                       player2Socket |-> IF isBotMode THEN "BOT" ELSE second,
                       player1Address |-> walletOf[first], player2Address |-> p2Address,
                       startTime |-> t0, stake |-> "1000000", interval |-> FALSE,
                       isBotMode |-> isBotMode])
        /\ activeGames = <<matchId>>
        /\ timers = <<>>
        /\ matchSignatures = <<>>
        /\ leaderboard = <<>>
        /\ rooms = <<>>
        /\ rng = init.rng
        /\ mathRandom = init.random
        /\ now = t0
        /\ emitted = (matchId :>
                        IF isBotMode THEN << matchFound({first}, "BOT", "1000000", "p1") >>
                        ELSE << matchFound({first}, walletOf[second], "1000000", "p1"),
                                matchFound({second}, walletOf[first], "1000000", "p2") >>)
        /\ notices = {}
        /\ runs = <<>>
        /\ escrow = Deployed

\* Clients send ready_to_start or leave, and the timer of the match fires.
NextStart ==
    \/ \E s \in Sockets, matchId \in MatchIds : ready_to_start(s, matchId, walletOf[s]) /\ UNCHANGED <<runs, escrow>>
    \/ \E matchId \in DOMAIN timers, elapsed \in Elapsed : Tick(matchId, elapsed) /\ UNCHANGED <<runs, escrow>>
    \/ \E s \in Sockets : disconnect(s) /\ UNCHANGED <<runs, escrow>>

SpecStart == InitStart /\ [][NextStart]_vars

\* ------------------------------------------------------------------------
\* A match whose ticks throw, next to a match whose ticks do not
\* ------------------------------------------------------------------------
\* s1 joined the first tier with its address and s2 after it with none: they
\* were paired in a duel whose player 2 has no address.  s1 then asked for a
\* bot match, and sent ready_to_start for both matches (s2 for the duel, too):
\* both timers run, no callback has fired yet.
InitFault ==
    \E t0 \in StartTimes :
    \E duel \in {multiplayerMatchId(t0, 0)} :
    \E init1 \in {createInitialState(walletOf["s1"], NoAddress, duel, FALSE, 1)} :
    \E bot \in {botMatchId(t0, init1.random)} :
    \E init2 \in {createInitialState(walletOf["s1"], "BOT", bot, TRUE, init1.random + 1)} :
        /\ sockets = [s \in Sockets |-> "open"]
        /\ queues = [stake \in StakeTiers |-> <<>>]
        /\ games = (duel :> [state |-> init1.state, player1Socket |-> "s1",
                             player2Socket |-> "s2", player1Address |-> walletOf["s1"],
                             player2Address |-> NoAddress, startTime |-> t0,
                             stake |-> "1000000", interval |-> TRUE, isBotMode |-> FALSE])
                   @@ (bot :> [state |-> init2.state, player1Socket |-> "s1",
                               player2Socket |-> "BOT", player1Address |-> walletOf["s1"],
                               player2Address |-> "BOT", startTime |-> t0,
                               stake |-> "1000000", interval |-> TRUE, isBotMode |-> TRUE])
        /\ activeGames = <<duel, bot>>
        /\ timers = (duel :> [lastTickTime |-> t0, errors |-> 0])
                    @@ (bot :> [lastTickTime |-> t0, errors |-> 0])
        /\ matchSignatures = <<>>
        /\ leaderboard = <<>>
        /\ rooms = (duel :> {"s1", "s2"}) @@ (bot :> {"s1"})
        /\ rng = init2.rng
        /\ mathRandom = init2.random
        /\ now = t0
        /\ emitted = (duel :> << matchFound({"s1"}, NoAddress, "1000000", "p1"),
                                 matchFound({"s2"}, walletOf["s1"], "1000000", "p2"),
                                 stateUpdate({"s1"}, init1.state) >>)
                     @@ (bot :> << matchFound({"s1"}, "BOT", "1000000", "p1"),
                                   stateUpdate({"s1"}, init2.state) >>)
        /\ notices = {}
        /\ runs = <<>>
        /\ escrow = Deployed

\* The timers fire, on time or late; a player may forfeit or leave.
NextFault ==
    \/ \E matchId \in DOMAIN timers, elapsed \in {e \in Elapsed : e > 0} :
          Tick(matchId, elapsed) /\ UNCHANGED <<runs, escrow>>
    \/ \E s \in Sockets, matchId \in MatchIds : forfeit(s, matchId, walletOf[s]) /\ UNCHANGED <<runs, escrow>>
    \/ \E s \in Sockets : disconnect(s) /\ UNCHANGED <<runs, escrow>>

SpecFault == InitFault /\ [][NextFault]_vars

\* ------------------------------------------------------------------------
\* A duel close to its time limit
\* ------------------------------------------------------------------------
\* The interval of a lagging server fires every LATE_PERIOD_MS: each tick then
\* advances the game by the largest step processTick allows.
LATE_PERIOD_MS == MAX_DELTA_MS

RECURSIVE afterTicks(_, _, _)
\* The engine after n more callbacks, LATE_PERIOD_MS apart, the first of them
\* at time t; no client sends anything in between.  run is [state, rng, random].
afterTicks(run, t, n) ==
    IF n = 0 THEN run
    ELSE IF n = 1 THEN processTick(run.state, LATE_PERIOD_MS, run.rng, run.random, t)
    ELSE LET half  == n \div 2
             first == afterTicks(run, t, half)
         IN  After(first.rng, afterTicks(first, t + half * LATE_PERIOD_MS, n - half))

\* The callbacks a duel has run when the model takes it up: the next one
\* on time is the last before the limit.
TicksBefore == (MATCH_DURATION_MS - LATE_PERIOD_MS) \div LATE_PERIOD_MS

\* s1 and s2 joined the first tier at the server's start and were paired, both
\* sent ready_to_start, and the timer has fired TicksBefore times since.
InitExpiry ==
    \E t0 \in StartTimes :
    \E matchId \in {multiplayerMatchId(t0, 0)} :
    \E init \in {createInitialState(walletOf["s1"], walletOf["s2"], matchId, FALSE, 1)} :
    \E run \in {afterTicks(init, t0 + LATE_PERIOD_MS, TicksBefore)} :
        /\ sockets = [s \in Sockets |-> "open"]
        /\ queues = [stake \in StakeTiers |-> <<>>]
        /\ games = (matchId :> [state |-> run.state, player1Socket |-> "s1",
                                player2Socket |-> "s2", player1Address |-> walletOf["s1"],
                                player2Address |-> walletOf["s2"], startTime |-> t0,
                                stake |-> "1000000", interval |-> TRUE,
                                isBotMode |-> FALSE])
        /\ activeGames = <<matchId>>
        /\ timers = (matchId :> [lastTickTime |-> t0 + TicksBefore * LATE_PERIOD_MS,
                                  errors |-> 0])
        /\ matchSignatures = <<>>
        /\ leaderboard = <<>>
        /\ rooms = (matchId :> {"s1", "s2"})
        /\ rng = run.rng
        /\ mathRandom = run.random
        /\ now = t0 + TicksBefore * LATE_PERIOD_MS
        /\ emitted = (matchId :> << matchFound({"s1"}, walletOf["s2"], "1000000", "p1"),
                                    matchFound({"s2"}, walletOf["s1"], "1000000", "p2") >>)
        /\ notices = {}
        /\ runs = <<>>
        /\ escrow = Deployed

\* The server once a match is under way: no client joins the lobby any more.
NextMatch ==
    \/ \E s \in Sockets, matchId \in MatchIds : match_signature(s, matchId, walletOf[s]) /\ UNCHANGED <<runs, escrow>>
    \/ \E s \in Sockets, matchId \in MatchIds : ready_to_start(s, matchId, walletOf[s]) /\ UNCHANGED <<runs, escrow>>
    \/ \E matchId \in DOMAIN timers, elapsed \in Elapsed : Tick(matchId, elapsed) /\ UNCHANGED <<runs, escrow>>
    \/ \E s \in Sockets, matchId \in MatchIds, mouse \in MouseInputs :
          mouse_move(s, matchId, walletOf[s], mouse) /\ UNCHANGED <<runs, escrow>>
    \/ \E s \in Sockets, matchId \in MatchIds : boost(s, matchId, walletOf[s]) /\ UNCHANGED <<runs, escrow>>
    \/ \E s \in Sockets, matchId \in MatchIds : forfeit(s, matchId, walletOf[s]) /\ UNCHANGED <<runs, escrow>>
    \/ \E s \in Sockets : disconnect(s) /\ UNCHANGED <<runs, escrow>>

SpecExpiry == InitExpiry /\ [][NextMatch]_vars

\* ------------------------------------------------------------------------
\* A duel whose timer keeps firing
\* ------------------------------------------------------------------------
\* Wall-clock time between two callbacks of a timer that is never early.
PositiveElapsed == {e \in Elapsed : e > 0}

\* The duel of s1 and s2, or of s1 and a client that gave no address (every
\* processTick of that duel throws once the time is counted), TicksBefore
\* callbacks old, both players in its room.
InitLive ==
    \E t0 \in StartTimes, p2Address \in {walletOf["s2"], NoAddress} :
    \E matchId \in {multiplayerMatchId(t0, 0)} :
    \E init \in {createInitialState(walletOf["s1"], p2Address, matchId, FALSE, 1)} :
    \E run \in {afterTicks(init, t0 + LATE_PERIOD_MS, TicksBefore)} :
        /\ sockets = [s \in Sockets |-> "open"]
        /\ queues = [stake \in StakeTiers |-> <<>>]
        /\ games = (matchId :> [state |-> run.state, player1Socket |-> "s1",
                                player2Socket |-> "s2", player1Address |-> walletOf["s1"],
                                player2Address |-> p2Address, startTime |-> t0,
                                stake |-> "1000000", interval |-> TRUE,
                                isBotMode |-> FALSE])
        /\ activeGames = <<matchId>>
        /\ timers = (matchId :> [lastTickTime |-> t0 + TicksBefore * LATE_PERIOD_MS,
                                  errors |-> 0])
        /\ matchSignatures = <<>>
        /\ leaderboard = <<>>
        /\ rooms = (matchId :> {"s1", "s2"})
        /\ rng = run.rng
        /\ mathRandom = run.random
        /\ now = t0 + TicksBefore * LATE_PERIOD_MS
        /\ emitted = (matchId :> << matchFound({"s1"}, p2Address, "1000000", "p1"),
                                    matchFound({"s2"}, walletOf["s1"], "1000000", "p2") >>)
        /\ notices = {}
        /\ runs = <<>>
        /\ escrow = Deployed

\* The callback of a timer, never early.
LiveTick ==
    \E matchId \in DOMAIN timers, elapsed \in PositiveElapsed :
        Tick(matchId, elapsed) /\ UNCHANGED <<runs, escrow>>

\* The players steer, boost, sign and send ready_to_start again; nobody
\* forfeits or leaves.
NextLive ==
    \/ LiveTick
    \/ \E s \in Sockets, matchId \in MatchIds, mouse \in MouseInputs :
          mouse_move(s, matchId, walletOf[s], mouse) /\ UNCHANGED <<runs, escrow>>
    \/ \E s \in Sockets, matchId \in MatchIds : boost(s, matchId, walletOf[s]) /\ UNCHANGED <<runs, escrow>>
    \/ \E s \in Sockets, matchId \in MatchIds : match_signature(s, matchId, walletOf[s]) /\ UNCHANGED <<runs, escrow>>
    \/ \E s \in Sockets, matchId \in MatchIds : ready_to_start(s, matchId, walletOf[s]) /\ UNCHANGED <<runs, escrow>>

\* A timer is set whose callback can run.
tickDue ==
    \E matchId \in DOMAIN timers :
        updatesSent(matchId) < MaxUpdates /\ timers[matchId].errors < MaxErrors

\* The firing of a timer: the callback reads the clock, which has advanced
\* since the last firing.  No other step of NextLive changes `now`, so these
\* are the steps of LiveTick.
TimerFires == tickDue /\ now' \in {now + elapsed : elapsed \in PositiveElapsed}

\* setInterval calls the callback again and again until clearInterval.
SpecLive == InitLive /\ [][NextLive]_vars /\ WF_now(TimerFires)

\* ------------------------------------------------------------------------
\* A duel under steering and boosting
\* ------------------------------------------------------------------------
\* What a mouse_move can carry: the pointer above the centre of the canvas, or
\* no numbers at all (the fields are undefined and the handler's arithmetic on
\* them gives NaN).
SteerInputs == MouseInputs \cup { <<NaN, NaN, NaN, NaN>> }

\* The callbacks a duel has run when the model takes it up: the two snakes,
\* steered by nobody, meet head to head in callback 50 and come back in
\* callback 70.
InputStarts == {49, 50, 69}

\* s1 and s2 were paired, both sent ready_to_start, and the timer has fired
\* `ticks` times since, LATE_PERIOD_MS apart.
InitInput ==
    \E t0 \in StartTimes, ticks \in InputStarts :
    \E matchId \in {multiplayerMatchId(t0, 0)} :
    \E init \in {createInitialState(walletOf["s1"], walletOf["s2"], matchId, FALSE, 1)} :
    \E run \in {afterTicks(init, t0 + LATE_PERIOD_MS, ticks)} :
        /\ sockets = [s \in Sockets |-> "open"]
        /\ queues = [stake \in StakeTiers |-> <<>>]
        /\ games = (matchId :> [state |-> run.state, player1Socket |-> "s1",
                                player2Socket |-> "s2", player1Address |-> walletOf["s1"],
                                player2Address |-> walletOf["s2"], startTime |-> t0,
                                stake |-> "1000000", interval |-> TRUE,
                                isBotMode |-> FALSE])
        /\ activeGames = <<matchId>>
        /\ timers = (matchId :> [lastTickTime |-> t0 + ticks * LATE_PERIOD_MS,
                                  errors |-> 0])
        /\ matchSignatures = <<>>
        /\ leaderboard = <<>>
        /\ rooms = (matchId :> {"s1", "s2"})
        /\ rng = run.rng
        /\ mathRandom = run.random
        /\ now = t0 + ticks * LATE_PERIOD_MS
        /\ emitted = (matchId :> << matchFound({"s1"}, walletOf["s2"], "1000000", "p1"),
                                    matchFound({"s2"}, walletOf["s1"], "1000000", "p2") >>)
        /\ notices = {}
        /\ runs = <<>>
        /\ escrow = Deployed

\* The timer fires, and the two players steer and boost in between.
NextInput ==
    \/ \E matchId \in DOMAIN timers, elapsed \in {e \in Elapsed : e > 0} :
          Tick(matchId, elapsed) /\ UNCHANGED <<runs, escrow>>
    \/ \E s \in Sockets, matchId \in MatchIds, mouse \in SteerInputs :
          mouse_move(s, matchId, walletOf[s], mouse) /\ UNCHANGED <<runs, escrow>>
    \/ \E s \in Sockets, matchId \in MatchIds : boost(s, matchId, walletOf[s]) /\ UNCHANGED <<runs, escrow>>

SpecInput == InitInput /\ [][NextInput]_vars

\* ------------------------------------------------------------------------
\* The engine on its own
\* ------------------------------------------------------------------------
\* Bound of the engine-level models: the ticks a run is followed for.
MaxRunTicks == 3

\* A server with no client: the engine's callers are driven directly.
ServerIdle ==
    /\ sockets = [s \in Sockets |-> "open"]
    /\ queues = [stake \in StakeTiers |-> <<>>]
    /\ games = <<>>
    /\ activeGames = <<>>
    /\ timers = <<>>
    /\ matchSignatures = <<>>
    /\ leaderboard = <<>>
    /\ rooms = <<>>
    /\ rng = 0
    /\ mathRandom = 0
    /\ now \in StartTimes
    /\ emitted = <<>>
    /\ notices = {}
    /\ escrow = Deployed

\* A process that has just called createInitialState: its game state, the
\* seed of its `rng`, its Math.random() and its clock.
newRun(p1Address, p2Address, matchId, isBotMode, mr, t) ==
    LET init == createInitialState(p1Address, p2Address, matchId, isBotMode, mr)
    IN  After(init.rng, [state |-> init.state, rng |-> init.rng, random |-> init.random,
                         now |-> t])

\* processTick(state, deltaMs) in the process x, deltaMs after its last call.
tickRun(x, deltaMs) ==
    LET r == processTick(x.state, deltaMs, x.rng, x.random, x.now + deltaMs)
    IN  After(r.rng, [x EXCEPT !.state = r.state, !.rng = r.rng, !.random = r.random,
                               !.now = x.now + deltaMs])

\* setDirection / startBoost on the snake of `address`, as the server calls them.
steerRun(x, address, mouse) == [x EXCEPT !.state = steered(@, address, mouse)]
boostRun(x, address) == [x EXCEPT !.state = boosted(@, address)]

\* ------------------------------------------------------------------------
\* Two runs of one match
\* ------------------------------------------------------------------------
\* Where the Math.random() of a process stands when it creates the match,
\* and what its clock reads then: two processes need not agree on either.
RandomStreams == {1, 1001}
RunStarts == {1000, 5000}

\* Two processes create the match of one identifier, in either mode.
InitRuns ==
    /\ ServerIdle
    /\ \E isBotMode \in BOOLEAN, mr \in RandomStreams, t \in RunStarts :
       \E matchId \in {IF isBotMode THEN botMatchId(1000, 0) ELSE multiplayerMatchId(1000, 0)} :
       \E p2 \in {IF isBotMode THEN "BOT" ELSE "0xB"} :
       \E first \in {newRun("0xA", p2, matchId, isBotMode, 1, 1000)} :
       \E second \in {newRun("0xA", p2, matchId, isBotMode, mr, t)} :
           runs = ("run1" :> first) @@ ("run2" :> second)

\* Both processes are given the same elapsed time, the same input.
RunsTick(deltaMs) ==
    /\ runs["run1"].state.tick < MaxRunTicks
    /\ \E first \in {tickRun(runs["run1"], deltaMs)} :
       \E second \in {tickRun(runs["run2"], deltaMs)} :
           runs' = ("run1" :> first) @@ ("run2" :> second)
    /\ UNCHANGED <<serverVars, escrow>>

RunsSteer(address, mouse) ==
    /\ runs' = [r \in DOMAIN runs |-> steerRun(runs[r], address, mouse)]
    /\ UNCHANGED <<serverVars, escrow>>

RunsBoost(address) ==
    /\ runs' = [r \in DOMAIN runs |-> boostRun(runs[r], address)]
    /\ UNCHANGED <<serverVars, escrow>>

NextRuns ==
    \/ \E deltaMs \in Elapsed : RunsTick(deltaMs)
    \/ \E mouse \in MouseInputs : RunsSteer("0xA", mouse)
    \/ RunsBoost("0xA")

SpecRuns == InitRuns /\ [][NextRuns]_vars

\* ------------------------------------------------------------------------
\* A match next to another one in the same process
\* ------------------------------------------------------------------------
\* Bounds: the ticks match A and the other match are followed for.
MaxSharedTicks == 4
MaxOtherTicks == 2
SharedElapsed == {TICK_PERIOD_MS, 130}

\* Match A, a duel, is created in two processes.  In the process "alone" no
\* other match exists; in the process "shared" another match may be created
\* and may tick between A's ticks, calling the same engine module.
InitShared ==
    /\ ServerIdle
    /\ \E a \in {newRun("0xA", "0xB", multiplayerMatchId(1000, 0), FALSE, 1, 1000)} :
           runs = ("alone" :> a) @@ ("shared" :> a)

\* A's interval fires: the same elapsed time in both processes.
SharedTick(deltaMs) ==
    /\ runs["alone"].state.tick < MaxSharedTicks
    /\ \E alone \in {tickRun(runs["alone"], deltaMs)} :
       \E shared \in {tickRun(runs["shared"], deltaMs)} :
           runs' = [runs EXCEPT !["alone"] = alone, !["shared"] = shared]
    /\ UNCHANGED <<serverVars, escrow>>

\* The other match is created in the shared process: join_lobby calls
\* createInitialState, which assigns the module's `rng`.
SharedCreate(isBotMode) ==
    /\ "other" \notin DOMAIN runs
    /\ \E matchId \in {IF isBotMode THEN botMatchId(runs["shared"].now, runs["shared"].random)
                       ELSE multiplayerMatchId(runs["shared"].now, runs["shared"].random)} :
       \E init \in {createInitialState("0xC", IF isBotMode THEN "BOT" ELSE "0xD", matchId,
                                       isBotMode, runs["shared"].random + 1)} :
           runs' = ("other" :> [state |-> init.state])
                   @@ [runs EXCEPT !["shared"].rng = init.rng,
                                   !["shared"].random = init.random]
    /\ UNCHANGED <<serverVars, escrow>>

\* The other match's interval fires in the shared process.
SharedTickOther(deltaMs) ==
    /\ "other" \in DOMAIN runs
    /\ runs["other"].state.tick < MaxOtherTicks
    /\ \E r \in {processTick(runs["other"].state, deltaMs, runs["shared"].rng,
                             runs["shared"].random, runs["shared"].now)} :
           runs' = [runs EXCEPT !["other"].state = r.state,
                                !["shared"].rng = r.rng,
                                !["shared"].random = r.random]
    /\ UNCHANGED <<serverVars, escrow>>

NextShared ==
    \/ \E deltaMs \in SharedElapsed : SharedTick(deltaMs)
    \/ \E isBotMode \in BOOLEAN : SharedCreate(isBotMode)
    \/ \E deltaMs \in SharedElapsed : SharedTickOther(deltaMs)

SpecShared == InitShared /\ [][NextShared]_vars

\* ------------------------------------------------------------------------
\* A duel at its time limit
\* ------------------------------------------------------------------------
\* The standings a player can have when the limit is reached: length in
\* 1/SCALE px, score, kills.
Lengths == {100 * SCALE, 120 * SCALE}
Scores == {40, 55}
Kills == {0, 1}

\* A snake with that standing: a living one has the segments of its length,
\* a dead one is as checkSnakeCollisions left it, its length still its own.
standing(snake, alive, length, score, kills, gameTime) ==
    IF alive
    THEN [snake EXCEPT !.length = length, !.score = score, !.kills = kills,
                       !.segments = reconcileSegments(@, length)]
    ELSE [snake EXCEPT !.length = length, !.score = score, !.kills = kills,
                       !.alive = FALSE, !.respawnTime = gameTime + RESPAWN_DELAY_MS,
                       !.boostTime = 0, !.segments = <<>>]

\* The timer has one period to go; either snake may have died just now.
InitWinner ==
    /\ ServerIdle
    /\ \E a \in {newRun("0xA", "0xB", multiplayerMatchId(1000, 0), FALSE, 1, 1000)} :
       \E alive1 \in BOOLEAN, length1 \in Lengths, score1 \in Scores, kills1 \in Kills :
       \E alive2 \in BOOLEAN, length2 \in Lengths, score2 \in Scores, kills2 \in Kills :
       LET gameTime == MATCH_DURATION_MS - TICK_PERIOD_MS
       IN  runs = ("duel" :>
                 [a EXCEPT !.state.gameTime = gameTime,
                           !.state.tick = gameTime \div TICK_PERIOD_MS,
                           !.state.lastOrbSpawn = gameTime,
                           !.state.player1 = standing(@, alive1, length1, score1, kills1,
                                                      gameTime),
                           !.state.player2 = standing(@, alive2, length2, score2, kills2,
                                                      gameTime),
                           !.now = 1000 + gameTime])

WinnerTick(deltaMs) ==
    /\ ~runs["duel"].state.matchEnded
    /\ runs["duel"].state.tick
          < (MATCH_DURATION_MS - TICK_PERIOD_MS) \div TICK_PERIOD_MS + MaxRunTicks
    /\ \E r \in {tickRun(runs["duel"], deltaMs)} : runs' = [runs EXCEPT !["duel"] = r]
    /\ UNCHANGED <<serverVars, escrow>>

NextWinner == \E deltaMs \in Elapsed : WinnerTick(deltaMs)

SpecWinner == InitWinner /\ [][NextWinner]_vars

\* ------------------------------------------------------------------------
\* Snakes that grow and shrink
\* ------------------------------------------------------------------------
\* Where a match is taken up, <<isBotMode, ticks run>>: in the duel a pickup,
\* a respawn and another pickup come next, in the bot match the random boost
\* of an AI snake and its pickups while boosting, a kill and a respawn.
GrowthStarts ==
    { <<FALSE, 43>>, <<FALSE, 69>>, <<FALSE, 214>>, <<TRUE, 5>>, <<TRUE, 18>>, <<TRUE, 38>> }

InitGrowth ==
    /\ ServerIdle
    /\ \E start \in GrowthStarts :
       \E matchId \in {IF start[1] THEN botMatchId(1000, 0) ELSE multiplayerMatchId(1000, 0)} :
       \E init \in {createInitialState("0xA", IF start[1] THEN "BOT" ELSE "0xB", matchId,
                                       start[1], 1)} :
       \E r \in {afterTicks(init, 1000 + LATE_PERIOD_MS, start[2])} :
           runs = ("solo" :> [state |-> r.state, rng |-> r.rng, random |-> r.random,
                              now |-> 1000 + start[2] * LATE_PERIOD_MS, from |-> start[2]])

GrowthTick(deltaMs) ==
    /\ runs["solo"].state.tick < runs["solo"].from + MaxRunTicks
    /\ \E r \in {tickRun(runs["solo"], deltaMs)} : runs' = [runs EXCEPT !["solo"] = r]
    /\ UNCHANGED <<serverVars, escrow>>

GrowthBoost(address) ==
    /\ runs' = [runs EXCEPT !["solo"] = boostRun(@, address)]
    /\ UNCHANGED <<serverVars, escrow>>

NextGrowth ==
    \/ \E deltaMs \in Elapsed : GrowthTick(deltaMs)
    \/ \E address \in Addresses : GrowthBoost(address)

SpecGrowth == InitGrowth /\ [][NextGrowth]_vars

\* ------------------------------------------------------------------------
\* The escrow contract and its callers
\* ------------------------------------------------------------------------
\* Any account sends any transaction to the deployed contract.
InitEscrow == ServerIdle /\ runs = <<>>

NextEscrow ==
    \/ \E sender \in Accounts, matchId \in MatchKeys, value \in Stakes :
          depositForMatch(sender, matchId, value)
    \/ \E sender \in Accounts, matchId \in MatchKeys, winner \in Accounts :
       \E signedState \in SignedStates : settle(sender, matchId, winner, signedState)
    \/ \E sender \in {"0xA"}, value \in {100} : deposit(sender, value)
    \/ \E sender \in {"0xOwner", "0xA"}, payee \in {"0xA"}, amount \in {100} :
          withdraw(sender, payee, amount)
    \/ \E sender \in {"0xOwner", "0xA"}, newSigner \in {ZeroAddress, "0xA", "0xNode"} :
          setClearNodeSigner(sender, newSigner)

SpecEscrow == InitEscrow /\ [][NextEscrow]_vars

\* ------------------------------------------------------------------------
\* Snakes that meet
\* ------------------------------------------------------------------------
\* Where the heads of player 1, player 2 and AI_0 can be when the collision
\* checks of a tick run, in px: together, 5 apart (inside the head radius),
\* beside the fourth segment of a snake at the first spot, or far away.
Spots == { <<1000, 1000>>, <<1005, 1000>>, <<976, 1005>>, <<1500, 1500>> }

\* The graceTime a snake can have then: none, or what a respawn one period
\* ago has left of it.
Graces == {0, RESPAWN_GRACE_MS - TICK_PERIOD_MS}

\* A snake with its head at the spot, its body laid out behind it.
placed(snake, spot, graceTime) ==
    [snake EXCEPT !.segments        = initialSegments(spot[1] * SCALE, spot[2] * SCALE, 0),
                  !.direction       = 0,
                  !.targetDirection = 0,
                  !.graceTime       = graceTime]

\* A bot match whose first three snakes have moved to the spots, the first
\* orb lying 3 px from the first spot.  `before` keeps the state the last
\* check was given.
InitArena ==
    /\ ServerIdle
    /\ \E a \in {newRun("0xA", "BOT", botMatchId(1000, 0), TRUE, 1, 1000)} :
       \E spot1 \in Spots, spot2 \in Spots, spot3 \in Spots :
       \E grace1 \in Graces, grace2 \in Graces, grace3 \in Graces :
       \E state \in {[a.state EXCEPT
                        !.player1     = placed(@, spot1, grace1),
                        !.player2     = placed(@, spot2, grace2),
                        !.aiSnakes[1] = placed(@, spot3, grace3),
                        !.orbs[1].x   = 1003 * SCALE,
                        !.orbs[1].y   = 1000 * SCALE,
                        !.gameTime    = TICK_PERIOD_MS,
                        !.tick        = 1]} :
           runs = ("arena" :> [state |-> state, rng |-> a.rng, random |-> a.random,
                               now |-> a.now + TICK_PERIOD_MS,
                               phase |-> "moved", before |-> state])

\* checkOrbCollisions(state, allSnakes), as processTick calls it after the moves.
ArenaFeed ==
    /\ runs["arena"].phase = "moved"
    /\ \E x \in {runs["arena"]} :
       \E fed \in {checkOrbCollisions(getAllSnakes(x.state), x.state.orbs, 1)} :
           runs' = [runs EXCEPT !["arena"] =
                      [x EXCEPT !.state  = [withSnakes(x.state, fed.snakes)
                                              EXCEPT !.orbs = fed.orbs],
                                !.phase  = "fed",
                                !.before = x.state]]
    /\ UNCHANGED <<serverVars, escrow>>

\* checkSnakeCollisions(state, allSnakes), called next.
ArenaFight ==
    /\ runs["arena"].phase = "fed"
    /\ \E x \in {runs["arena"]} :
       \E fought \in {checkSnakeCollisions(getAllSnakes(x.state), x.state.orbs,
                                           x.state.gameTime, x.rng, x.now)} :
           runs' = [runs EXCEPT !["arena"] =
                      [x EXCEPT !.state  = [withSnakes(x.state, fought.snakes)
                                              EXCEPT !.orbs = fought.orbs],
                                !.rng    = fought.rng,
                                !.phase  = "fought",
                                !.before = x.state]]
    /\ UNCHANGED <<serverVars, escrow>>

NextArena ==
    \/ ArenaFeed
    \/ ArenaFight

SpecArena == InitArena /\ [][NextArena]_vars

\* ------------------------------------------------------------------------
\* Short and long snakes that boost
\* ------------------------------------------------------------------------
\* Lengths a player's snake can have come to, in px: 50 less some boosts at
\* 5 px each, or more by the orbs it ate; and the time its boost has left.
BoostLengths == {15, 19, 20, 25, 50, 200}
BoostTimes == {0, TICK_PERIOD_MS}

\* A duel just created, but for player 1's length and running boost.
InitBoost ==
    /\ ServerIdle
    /\ \E a \in {newRun("0xA", "0xB", multiplayerMatchId(1000, 0), FALSE, 1, 1000)} :
       \E length \in BoostLengths, boostTime \in BoostTimes :
           runs = ("solo" :>
                     [state |-> [a.state EXCEPT
                                   !.player1 = [standing(@, TRUE, length * SCALE, 0, 0, 0)
                                                  EXCEPT !.boostTime = boostTime]],
                      rng |-> a.rng, random |-> a.random, now |-> a.now, from |-> 0])

SpecBoost == InitBoost /\ [][NextGrowth]_vars

\* ------------------------------------------------------------------------
\* A crowded arena
\* ------------------------------------------------------------------------
\* How many orbs lie in the arena, the remains of dead snakes among them:
\* the target count, one below the spawner's ceiling, the ceiling, more.
OrbCounts == {ORB_COUNT, (ORB_COUNT * 3) \div 2 - 1, (ORB_COUNT * 3) \div 2,
              (ORB_COUNT * 3) \div 2 + 20}

\* The state with medium orbs of dead snakes added, in a corner of the
\* arena, until `count` orbs lie there.
crowded(state, count) ==
    [state EXCEPT !.orbs =
        @ \o [k \in 1 .. count - Len(@) |->
                [id    |-> <<"death", state.player2.address, k, 900>>,
                 x     |-> (60 + k) * SCALE,
                 y     |-> 60 * SCALE,
                 size  |-> 2,
                 value |-> 6 * SCALE,
                 color |-> state.player2.color]]]

\* A duel two or three callbacks old (the first spawn is due once gameTime
\* is above ORB_SPAWN_RATE), the arena crowded or not.
InitOrbs ==
    /\ ServerIdle
    /\ \E ticks \in {2, 3}, count \in OrbCounts :
       \E init \in {createInitialState("0xA", "0xB", multiplayerMatchId(1000, 0), FALSE, 1)} :
       \E r \in {afterTicks(init, 1000 + LATE_PERIOD_MS, ticks)} :
           runs = ("solo" :> [state |-> crowded(r.state, count), rng |-> r.rng,
                              random |-> r.random,
                              now |-> 1000 + ticks * LATE_PERIOD_MS, from |-> ticks])

NextOrbs == \E deltaMs \in Elapsed : GrowthTick(deltaMs)

SpecOrbs == InitOrbs /\ [][NextOrbs]_vars

\* ------------------------------------------------------------------------
\* A bot match reaching its time limit
\* ------------------------------------------------------------------------
\* How long before the limit the match stands, in ms.
EndingLeads == {TICK_PERIOD_MS, 2 * TICK_PERIOD_MS}

\* A bot match shortly before its limit: player 1 alive or dead with its
\* respawn due at the limit, BOT and AI_0 at spots where they may collide,
\* an orb spawn due at the next tick that takes time.
InitEnding ==
    /\ ServerIdle
    /\ \E a \in {newRun("0xA", "BOT", botMatchId(1000, 0), TRUE, 1, 1000)} :
       \E lead \in EndingLeads, alive1 \in BOOLEAN, spot2 \in Spots, spot3 \in Spots :
       LET gameTime == MATCH_DURATION_MS - lead
       IN  runs = ("ending" :>
                 [a EXCEPT !.state.gameTime = gameTime,
                           !.state.tick = gameTime \div TICK_PERIOD_MS,
                           !.state.lastOrbSpawn = gameTime - ORB_SPAWN_RATE,
                           !.state.player1 =
                               IF alive1 THEN @
                               ELSE [@ EXCEPT !.alive = FALSE,
                                              !.respawnTime = MATCH_DURATION_MS,
                                              !.boostTime = 0, !.segments = <<>>],
                           !.state.player2 = placed(@, spot2, 0),
                           !.state.aiSnakes[1] = placed(@, spot3, 0),
                           !.now = 1000 + gameTime])

\* The timer callback's processTick; the timer is cleared once the match ended.
EndingTick(deltaMs) ==
    /\ ~runs["ending"].state.matchEnded
    /\ runs["ending"].state.tick
          < (MATCH_DURATION_MS - 2 * TICK_PERIOD_MS) \div TICK_PERIOD_MS + MaxRunTicks
    /\ \E r \in {tickRun(runs["ending"], deltaMs)} : runs' = [runs EXCEPT !["ending"] = r]
    /\ UNCHANGED <<serverVars, escrow>>

NextEnding == \E deltaMs \in Elapsed : EndingTick(deltaMs)

SpecEnding == InitEnding /\ [][NextEnding]_vars

\* ------------------------------------------------------------------------
\* Snakes that die and come back
\* ------------------------------------------------------------------------
\* Where the match stands: <<bot mode, timer callbacks run so far at 100 ms
\* each, ms the whole course of the match lies later>>.  The duel's players
\* kill each other in callback 50 and are due back in callback 70, the bot
\* match's AI_7 is due back in callback 39; in the last start the duel's
\* players are due back at the time limit.
RespawnStarts ==
    { <<FALSE, 48, 0>>, <<FALSE, 49, 0>>, <<FALSE, 68, 0>>, <<FALSE, 69, 0>>,
      <<TRUE, 38, 0>>, <<FALSE, 69, MATCH_DURATION_MS - 70 * LATE_PERIOD_MS>> }

\* The state of a match in which everything happened `shift` ms later.
shifted(state, shift) ==
    LET later(snake) == IF snake.alive THEN snake
                        ELSE [snake EXCEPT !.respawnTime = @ + shift]
    IN  [state EXCEPT !.gameTime     = @ + shift,
                      !.tick         = @ + shift \div LATE_PERIOD_MS,
                      !.lastOrbSpawn = @ + shift,
                      !.player1      = later(@),
                      !.player2      = later(@),
                      !.aiSnakes     = [j \in DOMAIN @ |-> later(@[j])]]

\* `respawned` keeps the snakes as the respawn loop of the last processTick
\* left them, `from` the tick count at the start.
InitRespawn ==
    /\ ServerIdle
    /\ \E start \in RespawnStarts :
       \E matchId \in {IF start[1] THEN botMatchId(1000, 0) ELSE multiplayerMatchId(1000, 0)} :
       \E init \in {createInitialState("0xA", IF start[1] THEN "BOT" ELSE "0xB", matchId,
                                       start[1], 1)} :
       \E r \in {afterTicks(init, 1000 + LATE_PERIOD_MS, start[2])} :
       \E state \in {shifted(r.state, start[3])} :
           runs = ("match" :> [state |-> state, rng |-> r.rng, random |-> r.random,
                               now |-> 1000 + start[2] * LATE_PERIOD_MS + start[3],
                               from |-> state.tick,
                               respawned |-> getAllSnakes(state)])

\* The timer callback's processTick.
RespawnTick(deltaMs) ==
    /\ ~runs["match"].state.matchEnded
    /\ runs["match"].state.tick < runs["match"].from + MaxRunTicks
    /\ \E x \in {runs["match"]} :
       \E gameTime \in {x.state.gameTime + Min(Max(deltaMs, 0), MAX_DELTA_MS)} :
       \E respawned \in {IF gameTime >= MATCH_DURATION_MS
                          THEN getAllSnakes(x.state)
                          ELSE respawnAll(getAllSnakes(x.state), gameTime, x.rng, 1).snakes} :
           runs' = [runs EXCEPT !["match"] =
                      [tickRun(x, deltaMs) EXCEPT !.respawned = respawned]]
    /\ UNCHANGED <<serverVars, escrow>>

NextRespawn == \E deltaMs \in Elapsed : RespawnTick(deltaMs)

SpecRespawn == InitRespawn /\ [][NextRespawn]_vars

\* ------------------------------------------------------------------------
\* Snakes that cross
\* ------------------------------------------------------------------------
\* Where the heads of player 1, BOT and AI_0 can be when the snake
\* collisions of a tick are checked, in px: a first spot; beside the fourth
\* segment of a snake at the first spot; beside the fourth segment of a snake
\* at the second; beside the sixth segment of a snake at the first; beside
\* the 65th segment of a long snake at the first; far away.
CrossSpots ==
    { <<1000, 1000>>, <<976, 1005>>, <<952, 1014>>, <<960, 995>>, <<488, 1005>>,
      <<1500, 1500>> }

\* A snake that has grown to 520 px and runs straight: its head at the spot,
\* its length \div SEGMENT_SIZE segments in a line behind it.
stretched(snake, spot) ==
    [snake EXCEPT !.length          = 520 * SCALE,
                  !.segments        = [k \in 1 .. 520 \div SEGMENT_SIZE |->
                                         [x |-> (spot[1] - (k - 1) * SEGMENT_SIZE) * SCALE,
                                          y |-> spot[2] * SCALE]],
                  !.direction       = 0,
                  !.targetDirection = 0,
                  !.graceTime       = 0]

\* A bot match whose first three snakes are at the spots, BOT grown long or
\* not, player 1 in grace or not, when checkSnakeCollisions is about to run.
InitCross ==
    /\ ServerIdle
    /\ \E a \in {newRun("0xA", "BOT", botMatchId(1000, 0), TRUE, 1, 1000)} :
       \E spot1 \in CrossSpots, spot2 \in CrossSpots, spot3 \in CrossSpots :
       \E grace1 \in Graces, long2 \in BOOLEAN :
       \E state \in {[a.state EXCEPT
                        !.player1     = placed(@, spot1, grace1),
                        !.player2     = IF long2 THEN stretched(@, spot2)
                                        ELSE placed(@, spot2, 0),
                        !.aiSnakes[1] = placed(@, spot3, 0),
                        !.gameTime    = TICK_PERIOD_MS,
                        !.tick        = 1]} :
           runs = ("arena" :> [state |-> state, rng |-> a.rng, random |-> a.random,
                               now |-> a.now + TICK_PERIOD_MS,
                               phase |-> "fed", before |-> state])

NextCross == ArenaFight

SpecCross == InitCross /\ [][NextCross]_vars

\* ------------------------------------------------------------------------
\* Snakes of any size that die
\* ------------------------------------------------------------------------
\* How many segments the dying snake has: none, one, every count up to 99,
\* and some of a very long snake.
DyingSegments == (0 .. 99) \cup {399, 400, 779, 780}

\* The snake with n segments in a line behind a head at (1000, 1000) px.
laid(snake, n) ==
    [snake EXCEPT !.length   = n * SEGMENT_SIZE * SCALE,
                  !.segments = [k \in 1 .. n |->
                                  [x |-> (1000 - (k - 1) * SEGMENT_SIZE) * SCALE,
                                   y |-> 1000 * SCALE]]]

\* Player 1 or BOT of a bot match, with that many segments, about to be
\* converted.
InitDying ==
    /\ ServerIdle
    /\ \E a \in {newRun("0xA", "BOT", botMatchId(1000, 0), TRUE, 1, 1000)} :
       \E n \in DyingSegments, who \in {"player1", "player2"} :
           runs = ("dying" :> [snake |-> laid(a.state[who], n), rng |-> a.rng,
                               now |-> a.now, phase |-> "dying", orbs |-> <<>>])

\* convertSnakeToOrbs(dead), as the death loop calls it.
Convert ==
    /\ runs["dying"].phase = "dying"
    /\ \E x \in {runs["dying"]} :
       \E conv \in {convertSnakeToOrbs(x.snake, x.rng, x.now)} :
           runs' = [runs EXCEPT !["dying"] =
                      [x EXCEPT !.orbs = conv.orbs, !.rng = conv.rng,
                                !.phase = "converted"]]
    /\ UNCHANGED <<serverVars, escrow>>

NextDying == Convert

SpecDying == InitDying /\ [][NextDying]_vars

\* ========================================================================
\* Properties
\* ========================================================================
\* The game_over messages sent for matchId.
gameOvers(matchId) == SelectSeq(emitted[matchId], LAMBDA e : e.event = "game_over")

\* C1: for every match, whatever the interleaving of its timer-driven end,
\* forfeit messages and disconnects, at most one game_over is sent; a forfeit
\* or a disconnect handled after the match has ended sends no second one.
C1_AtMostOneGameOver == \A matchId \in DOMAIN emitted : Len(gameOvers(matchId)) <= 1

\* A match ended by its time limit, one game_over sent, and a participant's
\* disconnect handled after that end.
C1_Witness ==
    \E matchId \in DOMAIN emitted :
        /\ Len(gameOvers(matchId)) = 1
        /\ gameOvers(matchId)[1].finalState.matchType = "time_limit"
        /\ ~hasGame(matchId)
        /\ \E s \in Sockets : sockets[s] = "closed"

\* ------------------------------------------------------------------------
\* Who takes part in a match
\* ------------------------------------------------------------------------
\* The match_found messages of matchId: one per human taking part.
found(matchId) == SelectSeq(emitted[matchId], LAMBDA e : e.event = "match_found")

\* The connections the match was made for.
lobbySockets(matchId) == UNION {found(matchId)[i].to : i \in 1..Len(found(matchId))}

\* The humans of the match: both players of a duel, player 1 of a bot match.
humans(matchId) == {walletOf[s] : s \in lobbySockets(matchId)}

isBotMatch(matchId) ==
    \E i \in 1..Len(found(matchId)) : found(matchId)[i].opponent = "BOT"

\* The two sides of the match are two parties: a client may queue twice and
\* be paired with itself, and then the match has one participant only.
distinctPlayers(matchId) == isBotMatch(matchId) \/ Cardinality(humans(matchId)) = 2

\* player1Address and player2Address of a game in the Map.
participants(matchId) == {games[matchId].player1Address, games[matchId].player2Address}

\* The message sent last for matchId.
lastEmitted(log) == log[Len(log)]

\* C2: a match's tick timer is never started before every required
\* participant has sent ready_to_start for it: both humans of a duel, the one
\* human of a bot match.  (The handler first joins the sender to the match's
\* room, and a player's disconnect ends the match, so the room of a match
\* with a timer holds exactly the connections that sent ready_to_start.)
C2_TimerAfterAllReady ==
    \A matchId \in DOMAIN timers :
        distinctPlayers(matchId)
            => \A address \in humans(matchId) :
                  \E s \in roomOf(matchId) : walletOf[s] = address

\* C3: a duel between two humans is not Active (timer started, first
\* state_update sent) before both have submitted match_signature for it.
C3_ActiveAfterSignatures ==
    \A matchId \in DOMAIN emitted :
        (updatesSent(matchId) > 0 /\ ~isBotMatch(matchId) /\ distinctPlayers(matchId))
            => <<matchId, "opponent_signed">> \in notices

\* C4: a ready_to_start, mouse_move, boost, forfeit or match_signature whose
\* address is not one of the two participants of the match it names leaves
\* the match's game state, its timer and the active-match table as they
\* were: no timer is started and no game_over is sent.
C4_OutsidersIgnored ==
    [][\A s \in Sockets, matchId \in Keys(activeGames) :
          ( /\ distinctPlayers(matchId)
            /\ walletOf[s] \notin participants(matchId)
            /\ \/ ready_to_start(s, matchId, walletOf[s])
               \/ \E mouse \in MouseInputs : mouse_move(s, matchId, walletOf[s], mouse)
               \/ boost(s, matchId, walletOf[s])
               \/ forfeit(s, matchId, walletOf[s])
               \/ match_signature(s, matchId, walletOf[s]) )
          => /\ UNCHANGED <<activeGames, timers, emitted>>
             /\ games'[matchId].state = games[matchId].state]_vars

\* C5: when a participant's connection drops, every match not yet ended in
\* which it takes part, started or not, duel or bot match, ends at once: it
\* leaves the active table, its timer is cleared, and a game_over with reason
\* disconnect names the other participant winner and the one that dropped
\* loser.
C5_DisconnectEndsMatches ==
    [][\A s \in Sockets :
          (sockets[s] = "open" /\ sockets'[s] = "closed")
          => \A matchId \in Keys(activeGames) :
                (distinctPlayers(matchId) /\ s \in lobbySockets(matchId))
                => /\ matchId \notin Keys(activeGames')
                   /\ matchId \notin DOMAIN timers'
                   /\ lastEmitted(emitted'[matchId]).event = "game_over"
                   /\ lastEmitted(emitted'[matchId]).finalState.matchType = "disconnect"
                   /\ lastEmitted(emitted'[matchId]).finalState.loser = walletOf[s]
                   /\ lastEmitted(emitted'[matchId]).finalState.winner
                          \in participants(matchId) \ {walletOf[s]}]_vars

\* C6: when participant A of a match in the table sends forfeit, the match
\* ends at once with a game_over whose winner is the other participant, whose
\* loser is A and whose reason is forfeit, whatever the lengths, scores and
\* kills of the two snakes.
C6_ForfeitOtherWins ==
    [][\A s \in Sockets, matchId \in Keys(activeGames) :
          (walletOf[s] \in participants(matchId) /\ forfeit(s, matchId, walletOf[s]))
          => /\ matchId \notin Keys(activeGames')
             /\ matchId \notin DOMAIN timers'
             /\ lastEmitted(emitted'[matchId]).event = "game_over"
             /\ lastEmitted(emitted'[matchId]).finalState.matchType = "forfeit"
             /\ lastEmitted(emitted'[matchId]).finalState.loser = walletOf[s]
             /\ lastEmitted(emitted'[matchId]).finalState.winner
                    \in participants(matchId) \ {walletOf[s]}]_vars

\* A match ended by the forfeit of the player whose snake was the longer one.
C6_Witness ==
    \E matchId \in DOMAIN emitted :
        /\ Len(gameOvers(matchId)) = 1
        /\ LET final == gameOvers(matchId)[1].finalState
           IN  /\ final.matchType = "forfeit"
               /\ final.loser \in Addresses
               /\ final.finalLengths[final.loser] > final.finalLengths[final.winner]

\* C7: two independent runs that create a match from the same identifier and
\* are given the same sequence of (elapsed time, input) pairs go through the
\* same game states, field for field, orb ids included.
C7_RunsIdentical == runs["run1"].state = runs["run2"].state

\* The state without the ids of its orbs, which Math.random() draws.
sansOrbIds(state) ==
    LET orbs == state.orbs
    IN  [state EXCEPT !.orbs = [k \in 1..Len(orbs) |-> [orbs[k] EXCEPT !.id = <<>>]]]

\* C8: matches do not interfere: the states A's ticks produce are the same
\* whatever another match does between them in the same process (being
\* created, ticking); no value drawn for A depends on the other match.
C8_NoInterference ==
    sansOrbIds(runs["alone"].state) = sansOrbIds(runs["shared"].state)

\* The winner of the ended duel `state` is the one that the order length,
\* score, kills names, the two lengths taken to be length1 and length2.
decidedBy(state, length1, length2) ==
    LET p1 == state.player1
        p2 == state.player2
    IN  /\ length1 > length2 => state.winner = p1.address
        /\ length2 > length1 => state.winner = p2.address
        /\ (length1 = length2 /\ p1.score > p2.score) => state.winner = p1.address
        /\ (length1 = length2 /\ p2.score > p1.score) => state.winner = p2.address
        /\ (length1 = length2 /\ p1.score = p2.score /\ p1.kills > p2.kills)
              => state.winner = p1.address
        /\ (length1 = length2 /\ p1.score = p2.score /\ p2.kills > p1.kills)
              => state.winner = p2.address
        /\ (length1 = length2 /\ p1.score = p2.score /\ p1.kills = p2.kills)
              => state.winner = "null"

\* C9 as stated: at the time limit the player with the strictly greater
\* current length wins; lengths equal, the greater score; scores equal, the
\* more kills; all three equal, nobody.
C9_ByCurrentLength ==
    LET state == runs["duel"].state
    IN  state.matchEnded => decidedBy(state, state.player1.length, state.player2.length)

\* The length that counts at the limit: none for a snake that is dead then.
countedLength(snake) == IF snake.alive THEN snake.length ELSE 0

\* C9, amended: at the time limit the order is length, score, kills, where
\* the length of a snake that is dead at that moment counts as 0.
C9_ByCountedLength ==
    LET state == runs["duel"].state
    IN  state.matchEnded
           => decidedBy(state, countedLength(state.player1), countedLength(state.player2))

\* The limit reached with the longer snake dead: the shorter, living one wins.
C9_Witness ==
    LET state == runs["duel"].state
    IN  /\ state.matchEnded
        /\ ~state.player1.alive /\ state.player2.alive
        /\ state.player1.length > state.player2.length
        /\ state.winner = state.player2.address

\* floor(length / SEGMENT_SIZE)
targetSegments(snake) == snake.length \div (SEGMENT_SIZE * SCALE)

arenaBefore == getAllSnakes(runs["arena"].before)
arenaAfter == getAllSnakes(runs["arena"].state)

\* Whether the heads of two snakes are closer than `radius` px.
headsWithin(a, b, radius) ==
    /\ Len(a.segments) > 0
    /\ Len(b.segments) > 0
    /\ Dist2(a.segments[1].x, a.segments[1].y, b.segments[1].x, b.segments[1].y)
           < (radius * SCALE) * (radius * SCALE)

\* C11: a snake that is alive with graceTime > 0 when checkSnakeCollisions
\* runs is alive when it returns, wherever the snakes are.
C11_GraceImmunity ==
    runs["arena"].phase = "fought" =>
        \A i \in DOMAIN arenaBefore :
            arenaBefore[i].alive /\ arenaBefore[i].graceTime > 0 => arenaAfter[i].alive

\* C11 happens: a snake in grace had its head inside the head radius of a
\* snake without grace and on the body of another one, and is alive after
\* checkSnakeCollisions.
C11_Witness ==
    /\ runs["arena"].phase = "fought"
    /\ \E i, j, k \in DOMAIN arenaBefore :
        /\ i # j /\ i # k
        /\ arenaBefore[i].alive /\ arenaBefore[i].graceTime > 0
        /\ collidable(arenaBefore[j]) /\ headsWithin(arenaBefore[i], arenaBefore[j], 15)
        /\ collidable(arenaBefore[k])
        /\ ~headsWithin(arenaBefore[i], arenaBefore[k], 15)
        /\ hitsBody(arenaBefore[i].segments[1], arenaBefore[k])
        /\ arenaAfter[i].alive

\* The snakes, by their place in the order player 1, player 2, AI roster, that
\* are alive with the head closer to the orb than 15 + 3 * size px.
reaching(allSnakes, orb) ==
    { j \in DOMAIN allSnakes :
        /\ allSnakes[j].alive
        /\ Len(allSnakes[j].segments) > 0
        /\ Dist2(allSnakes[j].segments[1].x, allSnakes[j].segments[1].y, orb.x, orb.y)
               < ((15 + 3 * orb.size) * SCALE) * ((15 + 3 * orb.size) * SCALE) }

\* The orbs whose earliest reaching snake is j.
wonBy(allSnakes, orbs, j) ==
    SelectSeq(orbs, LAMBDA o : /\ j \in reaching(allSnakes, o)
                               /\ \A k \in reaching(allSnakes, o) : j <= k)

\* C12: after checkOrbCollisions every orb some living snake reaches is gone,
\* the other orbs stay, and each snake has gained the value of exactly the
\* orbs it was the earliest to reach (player 1, player 2, then the AI roster)
\* and 5 in score for each of them: a later snake gains nothing from an orb
\* an earlier one reaches.
C12_EarliestSnakeEats ==
    runs["arena"].phase = "fed" =>
        /\ runs["arena"].state.orbs
               = SelectSeq(runs["arena"].before.orbs,
                           LAMBDA o : reaching(arenaBefore, o) = {})
        /\ \A j \in DOMAIN arenaBefore :
            LET won == wonBy(arenaBefore, runs["arena"].before.orbs, j)
            IN  /\ arenaAfter[j].length = arenaBefore[j].length + sumValues(won, 1)
                /\ arenaAfter[j].score = arenaBefore[j].score + 5 * Len(won)

\* C12 happens: player 1, player 2 and AI_0 all reached one orb, and player 1
\* alone has gained from it.
C12_Witness ==
    /\ runs["arena"].phase = "fed"
    /\ \E n \in DOMAIN runs["arena"].before.orbs :
        LET o == runs["arena"].before.orbs[n]
        IN  /\ {1, 2, 3} \subseteq reaching(arenaBefore, o)
            /\ \A m \in DOMAIN runs["arena"].state.orbs : runs["arena"].state.orbs[m].id # o.id
            /\ arenaAfter[1].length = arenaBefore[1].length + o.value
            /\ arenaAfter[1].score = arenaBefore[1].score + 5
            /\ arenaAfter[2].length = arenaBefore[2].length
            /\ arenaAfter[3].score = arenaBefore[3].score

\* Whether the head of snake k lies on the body of snake i: within 12 px of
\* a segment from the fourth on, the heads not inside the head radius.
onBodyOf(k, i) ==
    /\ Len(k.segments) > 0
    /\ ~headsWithin(k, i, 15)
    /\ \E n \in 4 .. Len(i.segments) :
          Dist2(k.segments[1].x, k.segments[1].y, i.segments[n].x, i.segments[n].y)
              < (12 * SCALE) * (12 * SCALE)

\* Whether the orbs hold what is left of the snake: a large orb where its
\* head was and a medium orb within 5 px of each of its other segments (a
\* snake of fewer than 40 segments leaves one for every segment).
leftOrbs(orbs, snake) ==
    /\ \E n \in DOMAIN orbs :
          /\ orbs[n].id[1] = "death" /\ orbs[n].id[2] = snake.address /\ orbs[n].id[3] = -1
          /\ orbs[n].x = snake.segments[1].x /\ orbs[n].y = snake.segments[1].y
          /\ orbs[n].size = 3 /\ orbs[n].value = 9 * SCALE
    /\ \A s \in 2 .. Len(snake.segments) :
          \E n \in DOMAIN orbs :
              /\ orbs[n].id[1] = "death" /\ orbs[n].id[2] = snake.address
              /\ orbs[n].id[3] = s - 1
              /\ Abs(orbs[n].x - snake.segments[s].x) <= 5 * SCALE
              /\ Abs(orbs[n].y - snake.segments[s].y) <= 5 * SCALE
              /\ orbs[n].size = 2 /\ orbs[n].value = 6 * SCALE

\* C13: when checkSnakeCollisions finds the heads of two living snakes
\* without grace closer than 15 px, both are dead when it returns, each has
\* gained at most one kill for every third snake that died on its body (none
\* for the other of the two), and the orbs hold the orbs there were and what
\* is left of both bodies.
C13_HeadToHead ==
    runs["arena"].phase = "fought" =>
        \A i, j \in DOMAIN arenaBefore :
            /\ i # j
            /\ arenaBefore[i].alive /\ arenaBefore[i].graceTime = 0
            /\ arenaBefore[j].alive /\ arenaBefore[j].graceTime = 0
            /\ headsWithin(arenaBefore[i], arenaBefore[j], 15)
            => /\ ~arenaAfter[i].alive
               /\ ~arenaAfter[j].alive
               /\ arenaAfter[i].kills - arenaBefore[i].kills
                     <= Cardinality({k \in DOMAIN arenaBefore \ {i, j} :
                                        /\ arenaBefore[k].alive
                                        /\ ~arenaAfter[k].alive
                                        /\ onBodyOf(arenaBefore[k], arenaBefore[i])})
               /\ arenaAfter[i].kills >= arenaBefore[i].kills
               /\ SubSeq(runs["arena"].state.orbs, 1, Len(runs["arena"].before.orbs))
                     = runs["arena"].before.orbs
               /\ leftOrbs(runs["arena"].state.orbs, arenaBefore[i])

\* C13 happens: the heads of player 1 and player 2, both without grace, were
\* 5 px apart; both are dead, with the kills they had, and their orbs lie
\* in the arena.
C13_Witness ==
    /\ runs["arena"].phase = "fought"
    /\ collidable(arenaBefore[1]) /\ collidable(arenaBefore[2])
    /\ headsWithin(arenaBefore[1], arenaBefore[2], 15)
    /\ ~headsWithin(arenaBefore[1], arenaBefore[2], 5)
    /\ ~arenaAfter[1].alive /\ ~arenaAfter[2].alive
    /\ arenaAfter[1].kills = arenaBefore[1].kills
    /\ arenaAfter[2].kills = arenaBefore[2].kills
    /\ leftOrbs(runs["arena"].state.orbs, arenaBefore[1])
    /\ leftOrbs(runs["arena"].state.orbs, arenaBefore[2])

\* The matches created by the step.
created == DOMAIN emitted' \ DOMAIN emitted

\* C14: a multiplayer join_lobby for a tier in whose queue a player waits
\* creates one match at that tier, player 1 the player who waited longest,
\* player 2 the next in arrival order (the sender, when one player waited);
\* both have left the queue, each is sent match_found for that match, and the
\* queues of the other tiers are as they were.
C14_PairsOldestOfTier ==
    [][\A s \in Sockets, tier \in StakeTiers :
          /\ Len(queues[tier]) > 0
          /\ join_lobby(s, walletOf[s], tier, "multiplayer")
          => LET arrived == Append(queues[tier],
                                   [socketId |-> s, address |-> walletOf[s], stake |-> tier])
                 p1 == arrived[1]
                 p2 == arrived[2]
             IN  /\ Cardinality(created) = 1
                 /\ \A m \in created :
                     /\ m \in Keys(activeGames')
                     /\ games'[m].player1Socket = p1.socketId
                     /\ games'[m].player1Address = p1.address
                     /\ games'[m].player2Socket = p2.socketId
                     /\ games'[m].player2Address = p2.address
                     /\ games'[m].state.player1.address = p1.address
                     /\ games'[m].state.player2.address = p2.address
                     /\ games'[m].stake = tier
                     /\ emitted'[m] = << matchFound({p1.socketId}, p2.address, tier, "p1"),
                                         matchFound({p2.socketId}, p1.address, tier, "p2") >>
                 /\ queues'[tier] = SubSeq(arrived, 3, Len(arrived))
                 /\ \A other \in StakeTiers \ {tier} : queues'[other] = queues[other]
      ]_vars

\* C14 happens: two players were paired at one tier while a player waits in
\* the queue of another tier.
C14_Witness ==
    \E m \in Keys(activeGames) :
        /\ ~games[m].isBotMode
        /\ games[m].player1Socket # games[m].player2Socket
        /\ emitted[m] = << matchFound({games[m].player1Socket}, games[m].player2Address,
                                      games[m].stake, "p1"),
                           matchFound({games[m].player2Socket}, games[m].player1Address,
                                      games[m].stake, "p2") >>
        /\ queues[games[m].stake] = <<>>
        /\ \E other \in StakeTiers \ {games[m].stake} : Len(queues[other]) > 0

\* C15: a join_lobby in bot mode for a tier leaves every queue as it was and
\* creates one match, the sender against the BOT sentinel with 8 auxiliary
\* AI snakes, for which match_found goes to the sender alone; and a match
\* any step creates for two queued players has no auxiliary AI snake.
C15_BotModeBypassesQueue ==
    [][/\ \A s \in Sockets, tier \in StakeTiers :
            join_lobby(s, walletOf[s], tier, "bot")
            => /\ queues' = queues
               /\ Cardinality(created) = 1
               /\ \A m \in created :
                   /\ m \in Keys(activeGames')
                   /\ games'[m].player1Address = walletOf[s]
                   /\ games'[m].player2Address = "BOT"
                   /\ games'[m].state.player1.address = walletOf[s]
                   /\ games'[m].state.player2.address = "BOT"
                   /\ Len(games'[m].state.aiSnakes) = 8
                   /\ games'[m].stake = tier
                   /\ emitted'[m] = << matchFound({s}, "BOT", tier, "p1") >>
       /\ \A m \in created :
            games'[m].player2Address # "BOT" => Len(games'[m].state.aiSnakes) = 0
      ]_vars

\* C15 happens: a bot match with its 8 auxiliary snakes exists while a
\* player still waits in a queue.
C15_Witness ==
    \E m \in Keys(activeGames) :
        /\ games[m].isBotMode
        /\ games[m].player2Address = "BOT"
        /\ Len(games[m].state.aiSnakes) = 8
        /\ emitted[m] = << matchFound(emitted[m][1].to, "BOT", games[m].stake, "p1") >>
        /\ games[m].stake \in StakeTiers
        /\ \E tier \in StakeTiers : Len(queues[tier]) > 0

\* C16: a join_lobby that names a stake outside the three tiers, in either
\* mode, changes nothing the server keeps and sends nothing.
C16_UnknownTierIgnored ==
    [][\A s \in Sockets, stake \in LobbyStakes \ StakeTiers, mode \in Modes :
          join_lobby(s, walletOf[s], stake, mode) => UNCHANGED <<serverVars, escrow>>
      ]_vars

\* Whether the queue of some tier holds an entry of the connection s.
inSomeQueue(qs, s) ==
    \E tier \in DOMAIN qs : \E n \in DOMAIN qs[tier] : qs[tier][n].socketId = s

\* C17: once the disconnect of a connection is handled no queue holds an
\* entry of it, and none does while it stays closed; the entries of the
\* other connections stay, in their order, so that the queues are unchanged
\* when the connection was in none.
C17_DisconnectLeavesQueues ==
    [][\A s \in Sockets :
          /\ disconnect(s)
                => /\ ~inSomeQueue(queues', s)
                   /\ \A tier \in DOMAIN queues :
                         queues'[tier]
                             = SelectSeq(queues[tier], LAMBDA e : e.socketId # s)
                   /\ (~inSomeQueue(queues, s) => queues' = queues)
          /\ (sockets'[s] = "closed" => ~inSomeQueue(queues', s))
      ]_vars

\* C17 happens: a connection is closed and in no queue, while the other
\* player still waits in the queue of a tier.
C17_Witness ==
    \E s \in Sockets : \E other \in Sockets \ {s} :
        /\ sockets[s] = "closed"
        /\ ~inSomeQueue(queues, s)
        /\ sockets[other] = "open"
        /\ inSomeQueue(queues, other)

\* Whether the game object has the sockets ready_to_start waits for.
readyCondition(game) ==
    /\ game.player1Socket # ""
    /\ (game.player2Socket # "" \/ game.player2Address = "BOT")

\* C18: a ready_to_start for a match that has no timer starts one exactly
\* when the ready condition is met, and then sends the state no tick has
\* touched as the first state_update of the match; a ready_to_start for a
\* match whose timer runs leaves the timers and what was sent as they are.
\* A timer runs only for a match whose game object holds its handle, which
\* is what keeps a match from having two.
C18_OneTimerPerMatch ==
    [][/\ \A s \in Sockets, m \in Keys(activeGames) :
            ready_to_start(s, m, walletOf[s])
            => IF m \in DOMAIN timers
               THEN UNCHANGED <<timers, emitted>>
               ELSE /\ m \in DOMAIN timers' <=> readyCondition(games'[m])
                    /\ \A other \in DOMAIN timers : timers'[other] = timers[other]
                    /\ IF m \in DOMAIN timers'
                       THEN /\ updatesSent(m) = 0
                            /\ games[m].state.tick = 0
                            /\ emitted' = [emitted EXCEPT ![m] =
                                  Append(@, stateUpdate(rooms'[m], games[m].state))]
                       ELSE emitted' = emitted
       /\ \A m \in Keys(activeGames') : m \in DOMAIN timers' <=> games'[m].interval
       /\ DOMAIN timers' \subseteq Keys(activeGames')
      ]_vars

\* C18 happens: a match was started, has had a tick, and a ready_to_start
\* that came later (its sender is in the room but not in the room the first
\* state_update went to) has not started it again.
C18_Witness ==
    \E m \in DOMAIN timers :
        /\ updatesSent(m) = 2
        /\ emitted[m][Len(emitted[m]) - 1].event = "state_update"
        /\ emitted[m][Len(emitted[m]) - 1].tick = 0
        /\ emitted[m][Len(emitted[m])].tick = 1
        /\ \E s \in roomOf(m) : s \notin emitted[m][Len(emitted[m]) - 1].to

\* Whether the step is a firing of the timer of m in which processTick
\* returned: the clock was read, and the callback wrote lastTickTime without
\* logging an error, or ended the timer.
tickCompleted(m) ==
    /\ now' # now
    /\ m \in DOMAIN timers
    /\ \/ m \notin DOMAIN timers'
       \/ /\ timers'[m].lastTickTime = now'
          /\ timers'[m].errors = timers[m].errors

\* C19: a completed tick of a running match sends exactly one state_update
\* for it, followed in the same callback by the game_over if the tick ended
\* the match; and once a game_over was sent for a match (time limit, forfeit
\* or disconnect) the match has no timer and the game_over is the last
\* message sent for it, so that no state_update follows.
C19_UpdatePerTick ==
    [][/\ \A m \in DOMAIN emitted :
            tickCompleted(m)
            => /\ \A other \in DOMAIN emitted \ {m} : emitted'[other] = emitted[other]
               /\ IF m \in DOMAIN timers'
                  THEN /\ ~games'[m].state.matchEnded
                       /\ emitted'[m]
                             = Append(emitted[m], stateUpdate(roomOf(m), games'[m].state))
                  ELSE /\ Len(emitted'[m]) = Len(emitted[m]) + 2
                       /\ SubSeq(emitted'[m], 1, Len(emitted[m])) = emitted[m]
                       /\ emitted'[m][Len(emitted[m]) + 1].event = "state_update"
                       /\ emitted'[m][Len(emitted[m]) + 1].matchEnded
                       /\ emitted'[m][Len(emitted[m]) + 2].event = "game_over"
       /\ \A m \in DOMAIN emitted' : \A n \in DOMAIN emitted'[m] :
            emitted'[m][n].event = "game_over"
            => n = Len(emitted'[m]) /\ m \notin DOMAIN timers'
      ]_vars

\* C19 happens: the timer has sent a state_update for a tick, then the
\* state_update of the ending tick and after it the game_over, and is gone.
C19_Witness ==
    \E m \in DOMAIN emitted :
        /\ m \notin DOMAIN timers
        /\ Len(emitted[m]) >= 3
        /\ emitted[m][Len(emitted[m])].event = "game_over"
        /\ emitted[m][Len(emitted[m])].finalState.matchType = "time_limit"
        /\ emitted[m][Len(emitted[m]) - 1].event = "state_update"
        /\ emitted[m][Len(emitted[m]) - 1].matchEnded
        /\ emitted[m][Len(emitted[m]) - 2].event = "state_update"
        /\ ~emitted[m][Len(emitted[m]) - 2].matchEnded

\* C20: when the callback of a match runs processTick and the call throws
\* (the tick is counted, no state_update follows), the timer of the match
\* stays scheduled, nothing is sent, no match ends, and the timers and
\* the game objects of the other matches are as they were.
C20_TickErrorContained ==
    [][\A m \in DOMAIN timers :
          /\ m \in DOMAIN games'
          /\ games'[m].state.tick = games[m].state.tick + 1
          /\ emitted'[m] = emitted[m]
          => /\ m \in DOMAIN timers'
             /\ emitted' = emitted
             /\ activeGames' = activeGames
             /\ leaderboard' = leaderboard
             /\ \A other \in DOMAIN timers \ {m} :
                   other \in DOMAIN timers' /\ timers'[other] = timers[other]
             /\ \A other \in DOMAIN games \ {m} :
                   other \in DOMAIN games' /\ games'[other] = games[other]
      ]_vars

\* C20 happens: the callback of the duel has caught two errors in a row, its
\* timer is still scheduled and no game_over was sent for it, while the other
\* match has had its tick.
C20_Witness ==
    \E m \in DOMAIN timers : \E other \in DOMAIN timers \ {m} :
        /\ timers[m].errors = 2
        /\ games[m].state.tick = 2
        /\ gameOvers(m) = <<>>
        /\ updatesSent(m) = 1
        /\ timers[other].errors = 0
        /\ games[other].state.tick = 1
        /\ updatesSent(other) = 2

\* The snake of `address` in a game state, as the input handlers look it up.
snakeOf(state, address) ==
    IF state.player1.address = address THEN state.player1 ELSE state.player2

\* The game state but for the two players' snakes.
sansPlayers(state) == [state EXCEPT !.player1 = {}, !.player2 = {}]

\* What a handler of socket s leaves alone in the match m whatever it does:
\* the timers, the generator, the messages sent, the match's gameTime, tick,
\* orbs and auxiliary snakes, and every snake but the one of s's address.
inputFrame(s, m) ==
    /\ timers' = timers /\ rng' = rng /\ emitted' = emitted /\ now' = now
    /\ DOMAIN games' = DOMAIN games
    /\ \A other \in DOMAIN games \ {m} : games'[other] = games[other]
    /\ sansPlayers(games'[m].state) = sansPlayers(games[m].state)
    /\ \A p \in {games[m].state.player1, games[m].state.player2} :
          p.address # walletOf[s] => p \in {games'[m].state.player1, games'[m].state.player2}

\* C21: a mouse_move or boost message never steps the simulation.  A
\* mouse_move changes at most the targetDirection of the sender's snake and a
\* boost at most its length and boostTime, and only if that snake is alive;
\* gameTime, tick, the orbs, every position and every other snake stay as
\* they were.  (The clock `now` moves with the timer callbacks only.)
C21_InputsDoNotStep ==
    [][/\ now' = now
          => (timers' = timers /\ rng' = rng /\ emitted' = emitted
                /\ DOMAIN games' = DOMAIN games)
       /\ \A s \in Sockets, m \in {m \in DOMAIN games : games' # games /\ now' = now} :
          LET mine  == snakeOf(games[m].state, walletOf[s])
              after == snakeOf(games'[m].state, walletOf[s])
          IN  /\ (\E mouse \in SteerInputs : mouse_move(s, m, walletOf[s], mouse))
                   => /\ inputFrame(s, m)
                      /\ after = [mine EXCEPT !.targetDirection = after.targetDirection]
                      /\ ~mine.alive => after = mine
              /\ boost(s, m, walletOf[s])
                   => /\ inputFrame(s, m)
                      /\ after = [mine EXCEPT !.length = after.length,
                                              !.boostTime = after.boostTime]
                      /\ ~mine.alive => after = mine
      ]_vars

\* C21 happens: after a callback player 1 has steered and boosted (its snake
\* aims away from its heading, its boost has its full time to run and has
\* cost it length), and player 2 has steered with a message without numbers.
C21_Witness ==
    \E m \in DOMAIN games :
        /\ games[m].state.player1.alive
        /\ games[m].state.player1.boostTime = BOOST_DURATION_MS
        /\ games[m].state.player1.targetDirection = Atan2(-300, 0)
        /\ games[m].state.player1.targetDirection # games[m].state.player1.direction
        /\ games[m].state.player1.length < INITIAL_LENGTH * SCALE
        /\ games[m].state.player2.alive
        /\ isNaN(games[m].state.player2.targetDirection)
        /\ ~isNaN(games[m].state.player2.direction)
        /\ updatesSent(m) >= 1

\* The callback of match m has run processTick in this step and the match goes on.
ticked(m) ==
    /\ m \in DOMAIN games /\ m \in DOMAIN games'
    /\ games'[m].state.tick = games[m].state.tick + 1

\* The snake moved from `before` to `after` toward its targetDirection by no
\* more than maxTurn mrad: the turn is a number, within the bound, on the
\* target's side and not beyond it.
turnedWithin(before, after, maxTurn) ==
    /\ ~isNaN(before.direction) /\ ~isNaN(after.direction) /\ ~isNaN(after.targetDirection)
    /\ LET turn     == wrapDiff(after.direction - before.direction)
           toTarget == wrapDiff(after.targetDirection - before.direction)
       IN  /\ Abs(turn) <= maxTurn
           /\ Abs(turn) <= Abs(toTarget)
           /\ turn = 0 \/ Abs(toTarget) = PI \/ Sign(turn) = Sign(toTarget)

\* C22: in every tick, every snake that is alive before and after it (so was
\* not respawned in it) has turned by at most TURN_SPEED rad/s times the
\* clamped elapsed time, toward its targetDirection and not beyond it.
C22_TurningBound ==
    [][\A m \in DOMAIN games :
          ticked(m) =>
             \A i \in 1 .. Len(getAllSnakes(games[m].state)) :
                LET before == getAllSnakes(games[m].state)[i]
                    after  == getAllSnakes(games'[m].state)[i]
                IN  before.alive /\ after.alive
                       => turnedWithin(before, after,
                             TURN_SPEED * (games'[m].state.gameTime - games[m].state.gameTime))
      ]_vars

\* A coordinate within the clamp margin of the arena, in 1/SCALE px.
contained(v, size) == ~isNaN(v) /\ 20 * SCALE <= v /\ v <= (size - 20) * SCALE

\* C23: the head of every living snake of every match has both coordinates
\* within [20, ARENA - 20].
C23_ArenaContainment ==
    \A m \in DOMAIN games :
        \A i \in 1 .. Len(getAllSnakes(games[m].state)) :
            LET snake == getAllSnakes(games[m].state)[i]
            IN  snake.alive /\ Len(snake.segments) > 0
                   => /\ contained(snake.segments[1].x, ARENA_WIDTH)
                      /\ contained(snake.segments[1].y, ARENA_HEIGHT)

\* ------------------------------------------------------------------------
\* The escrow contract
\* ------------------------------------------------------------------------
\* The match `matchId` is settled by this step.
settles(matchId) == ~escrow.matches[matchId].settled /\ escrow'.matches[matchId].settled

\* C24: a settle of a match both players deposited into keeps a rake of 2 %
\* of the total pot in the contract, sends 80 % of the net pot to the winner
\* and the remaining 20 % to the loser.
C24_RakeAndSplit ==
    [][\A matchId \in MatchKeys :
          settles(matchId) =>
             LET m      == escrow.matches[matchId]
                 winner == escrow'.lastCall.winner
                 loser  == IF winner = m.player1 THEN m.player2 ELSE m.player1
                 split  == settleSplit(m)
                 rake   == ((m.stake1 + m.stake2) * 2) \div 100
             IN  /\ escrow'.balance[winner] - escrow.balance[winner] = split[1]
                 /\ escrow'.balance[loser] - escrow.balance[loser] = split[2]
                 /\ escrow.balance[EscrowAddress] - escrow'.balance[EscrowAddress]
                       = m.stake1 + m.stake2 - rake]_vars

\* C25: a settle call on a settled match is rejected with "Already settled"
\* and moves no ether and changes no match, whoever sends it, whichever
\* winner it names and whatever signature it carries.
C25_SettledOnce ==
    [][\A sender \in Accounts, matchId \in MatchKeys, winner \in Accounts :
       \A signedState \in SignedStates :
          (escrow.matches[matchId].settled /\ settle(sender, matchId, winner, signedState))
             => /\ escrow'.lastCall.result = "Already settled"
                /\ escrow'.balance = escrow.balance
                /\ escrow'.matches = escrow.matches
                /\ escrow'.deposits = escrow.deposits]_vars

\* A settled match of 50 + 50 whose winner was paid, the contract holding
\* another 100 in plain deposits, and a further settle naming the loser as
\* winner turned down.
C25_Witness ==
    LET m == escrow.matches["match-1"]
    IN  /\ m.settled
        /\ m.stake1 = 50 /\ m.stake2 = 50
        /\ escrow.balance[EscrowAddress] >= 100
        /\ escrow.lastCall.fn = "settle"
        /\ escrow.lastCall.result = "Already settled"
        /\ escrow.lastCall.winner \in {m.player1, m.player2}
        /\ escrow.balance[escrow.lastCall.winner] < InitialBalance

\* ------------------------------------------------------------------------
\* The end of a match
\* ------------------------------------------------------------------------
\* C26: the tick in which gameTime first reaches MATCH_DURATION_MS sets
\* matchEnded and the winner and, the clock and the tick count apart, changes
\* nothing else: no respawn, no AI update, no movement, no pickup, no
\* collision, no orb spawn, no draw from either generator.  matchEnded is set
\* by no other tick, so a state with matchEnded has gameTime >=
\* MATCH_DURATION_MS, and a tick in which snakes are eliminated leaves the
\* match running.
C26_EndingTickOnlyEnds ==
    [][LET x == runs["ending"]
           y == runs'["ending"]
       IN  /\ (x.state.gameTime < MATCH_DURATION_MS /\ y.state.gameTime >= MATCH_DURATION_MS)
                => /\ y.state = [x.state EXCEPT !.gameTime = y.state.gameTime,
                                                !.tick = x.state.tick + 1,
                                                !.matchEnded = TRUE,
                                                !.winner = determineWinner(x.state)]
                   /\ y.rng = x.rng
                   /\ y.random = x.random
           /\ y.state.matchEnded => y.state.gameTime >= MATCH_DURATION_MS
           /\ y.state.gameTime < MATCH_DURATION_MS
                => ~y.state.matchEnded /\ y.state.winner = x.state.winner]_vars

\* The match ended while player 1 was dead with its respawn due, BOT
\* had been eliminated one tick earlier, and an orb spawn was due.
C26_Witness ==
    LET state == runs["ending"].state
    IN  /\ state.matchEnded
        /\ state.gameTime >= MATCH_DURATION_MS
        /\ ~state.player1.alive /\ state.player1.respawnTime <= state.gameTime
        /\ ~state.player2.alive /\ state.player2.respawnTime > state.gameTime
        /\ state.gameTime - state.lastOrbSpawn > ORB_SPAWN_RATE
        /\ state.winner = "null"

\* ------------------------------------------------------------------------
\* The clock of a match
\* ------------------------------------------------------------------------
\* C27: every processTick adds exactly 1 to tick and min(max(deltaMs, 0), 100)
\* to gameTime, whatever elapsed time deltaMs it is given (the advance of the
\* process's clock since its last call), negative or above 100 ms:
\* gameTime never goes back, gains at most 100 ms a tick, and is at most
\* 100 * tick.
C27_ClampedClock ==
    [][LET x       == runs["solo"].state
           y       == runs'["solo"].state
           deltaMs == runs'["solo"].now - runs["solo"].now
       IN  (deltaMs # 0 \/ y.tick # x.tick \/ y.gameTime # x.gameTime)
              => /\ deltaMs \in Elapsed
                 /\ y.tick = x.tick + 1
                 /\ y.gameTime = x.gameTime
                       + (IF deltaMs < 0 THEN 0 ELSE IF deltaMs > 100 THEN 100 ELSE deltaMs)
                 /\ y.gameTime >= x.gameTime
                 /\ y.gameTime - x.gameTime <= 100
                 /\ y.gameTime <= 100 * y.tick]_vars

\* Two ticks after a start at 100 ms a tick: one reported 130 ms and counted
\* 100, the other reported -20 ms and counted nothing.
C27_Witness ==
    LET x == runs["solo"]
    IN  /\ x.state.tick = x.from + 2
        /\ x.state.gameTime = 100 * x.from + 100
        /\ x.now = 1000 + x.from * LATE_PERIOD_MS + 110

\* ------------------------------------------------------------------------
\* Death and respawn
\* ------------------------------------------------------------------------
\* C28: a snake killed in a tick of match time t has respawnTime t + 2000;
\* a dead snake is left as it is by every tick whose match time is below its
\* respawnTime, and the respawn loop of the first tick whose match time has
\* reached it, unless that tick ends the match, makes it alive with length
\* INITIAL_LENGTH, boostTime 0 and graceTime RESPAWN_GRACE_MS, its score and
\* kills as they were; the grace keeps it alive to the end of that tick.
C28_RespawnAfterDelay ==
    [][LET x      == runs["match"]
           y      == runs'["match"]
           T      == y.state.gameTime
           ending == y.state.matchEnded /\ ~x.state.matchEnded
       IN  \A j \in 1..Len(getAllSnakes(x.state)) :
              LET old == getAllSnakes(x.state)[j]
                  mid == y.respawned[j]
                  new == getAllSnakes(y.state)[j]
              IN  /\ (old.alive /\ ~new.alive) => new.respawnTime = T + RESPAWN_DELAY_MS
                  /\ (~old.alive /\ T < old.respawnTime) => (mid = old /\ new = old)
                  /\ (~old.alive /\ ending) => (mid = old /\ new = old)
                  /\ (~old.alive /\ T >= old.respawnTime /\ ~ending)
                        => /\ mid.alive
                           /\ mid.length = INITIAL_LENGTH * SCALE
                           /\ mid.boostTime = 0
                           /\ mid.graceTime = RESPAWN_GRACE_MS
                           /\ mid.score = old.score
                           /\ mid.kills = old.kills
                           /\ Len(mid.segments) > 0
                           /\ new.alive]_vars

\* Player 2 of the duel, killed at 5000 ms with a score of 5 and a length of
\* 53, is back after the tick of 7000 ms: length 50 at the respawn, score 5.
C28_Witness ==
    LET x == runs["match"]
    IN  /\ x.state.gameTime = 7000
        /\ x.state.player2.address = "0xB"
        /\ x.state.player2.alive
        /\ x.state.player2.respawnTime = 7000
        /\ x.state.player2.score = 5
        /\ x.respawned[2].length = INITIAL_LENGTH * SCALE
        /\ x.respawned[2].graceTime = RESPAWN_GRACE_MS
        /\ x.state.player2.graceTime < RESPAWN_GRACE_MS

\* C29: in every state, whatever the order of timer callbacks, mouse_move and
\* boost messages, a snake that is not alive has no segments and boostTime 0.
C29_DeadSnakeIsBare ==
    \A matchId \in DOMAIN games :
       \A j \in 1..Len(getAllSnakes(games[matchId].state)) :
          LET snake == getAllSnakes(games[matchId].state)[j]
          IN  ~snake.alive => (snake.segments = <<>> /\ snake.boostTime = 0)

\* Player 1 boosted, paying for it with length, and was killed while the
\* boost was running; player 2 died in the same tick.
C29_Witness ==
    \E matchId \in DOMAIN games :
       LET state == games[matchId].state
       IN  /\ ~state.player1.alive
           /\ state.player1.length < INITIAL_LENGTH * SCALE
           /\ state.player1.respawnTime - RESPAWN_DELAY_MS + BOOST_DURATION_MS
                 > state.gameTime
           /\ ~state.player2.alive
           /\ state.gameTime < state.player1.respawnTime

\* ------------------------------------------------------------------------
\* Head-to-body collisions
\* ------------------------------------------------------------------------
\* floor(0.15 * length), lengths in 1/SCALE px.
killBonus(length) == ((length * 15) \div (100 * SCALE)) * SCALE

\* The collision checkSnakeCollisions finds for the pair (attacker k,
\* defender i) of snakes as they were before it ran: "heads", "body" or "none".
crossing(k, i) ==
    IF k = i \/ ~collidable(arenaBefore[k]) \/ ~collidable(arenaBefore[i]) THEN "none"
    ELSE IF ~headsWithin(arenaBefore[k], arenaBefore[i], MAX_CHECK_DISTANCE)
            /\ Dist2(arenaBefore[k].segments[1].x, arenaBefore[k].segments[1].y,
                     arenaBefore[i].segments[1].x, arenaBefore[i].segments[1].y)
                  # (MAX_CHECK_DISTANCE * SCALE) * (MAX_CHECK_DISTANCE * SCALE)
    THEN "none"
    ELSE IF headsWithin(arenaBefore[k], arenaBefore[i], 15) THEN "heads"
    ELSE IF onBodyOf(arenaBefore[k], arenaBefore[i]) THEN "body"
    ELSE "none"

\* When in the scan snake s is marked for death: the place of the first pair
\* (attacker, defender) that marks it, 0 if none does.
markedAt(s) ==
    LET n     == Len(arenaBefore)
        marks == {(s - 1) * n + i : i \in {i \in 1 .. n : crossing(s, i) # "none"}}
                   \cup {(k - 1) * n + s : k \in {k \in 1 .. n : crossing(k, s) = "heads"}}
    IN  IF marks = {} THEN 0 ELSE CHOOSE m \in marks : \A other \in marks : m <= other

\* The attackers whose death is credited to defender i: those first marked
\* by their head-to-body collision with i.
creditedTo(i) ==
    {k \in 1 .. Len(arenaBefore) :
        crossing(k, i) = "body" /\ markedAt(k) = (k - 1) * Len(arenaBefore) + i}

\* The sum of the values of a function.
RECURSIVE sumOf(_)
sumOf(f) ==
    IF DOMAIN f = {} THEN 0
    ELSE LET k == CHOOSE k \in DOMAIN f : TRUE
         IN  f[k] + sumOf([x \in DOMAIN f \ {k} |-> f[x]])

\* The length of snake k when its death is resolved: its length before the
\* collisions are checked and the bonuses for the deaths credited to it and
\* resolved earlier.
RECURSIVE lengthAtDeath(_)
lengthAtDeath(k) ==
    arenaBefore[k].length
       + sumOf([x \in {x \in creditedTo(k) : markedAt(x) < markedAt(k)} |->
                  killBonus(lengthAtDeath(x))])

\* C30 as stated: whenever the head of a living attacker without grace was
\* within 12 px of a segment of index >= 3 of a living defender without
\* grace, their heads not within 15 px, the attacker is dead after
\* checkSnakeCollisions, the defender has died only if a collision of its
\* own marked it, and a defender credited with the attacker has gained one
\* kill and floor(0.15 * the attacker's length) for each such attacker.
C30_HeadToBodyAnywhere ==
    runs["arena"].phase = "fought" =>
        \A k, i \in DOMAIN arenaBefore :
            /\ k # i
            /\ collidable(arenaBefore[k]) /\ collidable(arenaBefore[i])
            /\ onBodyOf(arenaBefore[k], arenaBefore[i])
            => /\ ~arenaAfter[k].alive
               /\ ~arenaAfter[i].alive => markedAt(i) # 0
               /\ k \in creditedTo(i)
                     => /\ arenaAfter[i].kills - arenaBefore[i].kills
                              = Cardinality(creditedTo(i))
                        /\ arenaAfter[i].length - arenaBefore[i].length
                              = sumOf([x \in creditedTo(i) |->
                                         killBonus(arenaBefore[x].length)])

\* C30, amended: the same for attackers and defenders whose heads are no
\* more than MAX_CHECK_DISTANCE apart, the bonus being floor(0.15 * the
\* attacker's length when its death is resolved).
C30_HeadToBodyInRange ==
    runs["arena"].phase = "fought" =>
        \A k, i \in DOMAIN arenaBefore :
            crossing(k, i) = "body"
            => /\ ~arenaAfter[k].alive
               /\ ~arenaAfter[i].alive => markedAt(i) # 0
               /\ arenaAfter[i].alive => markedAt(i) = 0
               /\ k \in creditedTo(i)
                     => /\ arenaAfter[i].kills - arenaBefore[i].kills
                              = Cardinality(creditedTo(i))
                        /\ arenaAfter[i].length - arenaBefore[i].length
                              = sumOf([x \in creditedTo(i) |->
                                         killBonus(lengthAtDeath(x))])

\* Player 1 died on the body of AI_0 and AI_0 on the body of BOT: AI_0 had
\* gained 7 px for player 1 when it died, and BOT, still alive, got one
\* kill and floor(0.15 * 57) = 8 px for it.
C30_Witness ==
    /\ runs["arena"].phase = "fought"
    /\ crossing(1, 3) = "body" /\ crossing(3, 2) = "body"
    /\ creditedTo(3) = {1} /\ creditedTo(2) = {3}
    /\ ~arenaAfter[1].alive /\ ~arenaAfter[3].alive /\ arenaAfter[2].alive
    /\ arenaAfter[3].length = arenaBefore[3].length + 7 * SCALE
    /\ arenaAfter[2].kills = arenaBefore[2].kills + 1
    /\ arenaAfter[2].length = arenaBefore[2].length + 8 * SCALE

\* ------------------------------------------------------------------------
\* Deaths of one tick
\* ------------------------------------------------------------------------
\* The large orbs the head of the snake of `address` has left in `orbs`.
headOrbs(orbs, address) ==
    {n \in DOMAIN orbs : orbs[n].id[1] = "death" /\ orbs[n].id[2] = address
                           /\ orbs[n].id[3] = -1}

\* C31: checkSnakeCollisions scans every pair on the snakes as they were
\* when it was called and applies the deaths after the scan: a snake dies if
\* and only if one of its collisions with the snakes as they were marks it,
\* also a collision with a snake marked earlier in the scan; a snake with
\* several lethal collisions leaves its orbs once, is dead with no segments,
\* and is credited to at most one killer (the kills gained by all snakes
\* together are the snakes that died on a body, one kill each).
C31_DeathsAfterScan ==
    runs["arena"].phase = "fought" =>
        /\ \A k \in DOMAIN arenaBefore :
              /\ arenaBefore[k].alive
                    => (arenaAfter[k].alive <=> markedAt(k) = 0)
              /\ (arenaBefore[k].alive /\ ~arenaAfter[k].alive)
                    => /\ arenaAfter[k].segments = <<>>
                       /\ Cardinality(headOrbs(runs["arena"].state.orbs,
                                                arenaBefore[k].address)) = 1
                       /\ Cardinality({i \in DOMAIN arenaBefore : k \in creditedTo(i)}) <= 1
              /\ arenaAfter[k].alive => arenaAfter[k].segments = arenaBefore[k].segments
        /\ sumOf([i \in DOMAIN arenaBefore |-> arenaAfter[i].kills - arenaBefore[i].kills])
              = Cardinality({k \in DOMAIN arenaBefore :
                                \E i \in DOMAIN arenaBefore : k \in creditedTo(i)})

\* AI_0 met player 1 head to head and lay on the body of BOT as well: marked
\* by player 1's scan, it died once, and BOT has the one kill for player 1,
\* none for AI_0.
C31_Witness ==
    /\ runs["arena"].phase = "fought"
    /\ crossing(3, 1) = "heads" /\ crossing(3, 2) = "body" /\ crossing(1, 2) = "body"
    /\ ~arenaAfter[1].alive /\ ~arenaAfter[3].alive /\ arenaAfter[2].alive
    /\ arenaAfter[2].kills = arenaBefore[2].kills + 1
    /\ Cardinality(headOrbs(runs["arena"].state.orbs, arenaBefore[3].address)) = 1

\* ------------------------------------------------------------------------
\* What changes a snake's length
\* ------------------------------------------------------------------------
\* What startBoost takes from a snake of that length.
boostCost(length) ==
    IF length * BOOST_LENGTH_COST_PCT > 5 * SCALE * 100
    THEN (length * BOOST_LENGTH_COST_PCT) \div 100
    ELSE 5 * SCALE

\* C32: in a step in which a snake is not respawned, its length grows only
\* together with its score (an orb pickup) or its kills (a kill bonus) and
\* shrinks only by the cost of a boost it could start (no boost running,
\* length at least 20): a boost message for a player's snake, the random
\* boost of the AI update for the others.  Movement, turning, the end of the
\* grace period and dying leave the length as it was.
C32_LengthChanges ==
    [][LET x == runs["solo"].state
           y == runs'["solo"].state
       IN  \A j \in 1 .. Len(getAllSnakes(x)) :
              LET old     == getAllSnakes(x)[j]
                  new     == getAllSnakes(y)[j]
                  ticking == y.tick # x.tick
                  started == /\ old.boostTime = 0
                             /\ old.length >= 20 * SCALE
                             /\ IF ticking
                                THEN isAIAddress(old.address) /\ old.alive
                                     /\ (new.boostTime > 0 \/ ~new.alive)
                                ELSE ~isAIAddress(old.address) /\ old.alive
                                     /\ new.boostTime = BOOST_DURATION_MS
              IN  (old.alive \/ ~new.alive) =>
                     /\ new.length > old.length
                           => ticking /\ (new.score > old.score \/ new.kills > old.kills)
                     /\ new.length < old.length
                           => started /\ new.length >= old.length - boostCost(old.length)
                     /\ (new.score = old.score /\ new.kills = old.kills)
                           => new.length \in {old.length, old.length - boostCost(old.length)}
                     /\ (new.score = old.score /\ new.kills = old.kills /\ ~started)
                           => new.length = old.length]_vars

\* Two ticks into the bot match taken up at its fifth callback: player 1
\* boosted by message and paid 5 px, AI_6 started its random boost in the
\* first of the two ticks, paid 5 px, and has picked up orbs since.
C32_Witness ==
    LET x == runs["solo"]
    IN  /\ x.from = 5 /\ x.state.tick = 7
        /\ x.state.player1.boostTime > 0
        /\ x.state.player1.length = INITIAL_LENGTH * SCALE - 5 * SCALE
        /\ x.state.aiSnakes[7].boostTime > 0
        /\ x.state.aiSnakes[7].score > 5
        /\ x.state.aiSnakes[7].length > INITIAL_LENGTH * SCALE

\* ------------------------------------------------------------------------
\* Boost requests
\* ------------------------------------------------------------------------
\* C33: a boost request for a snake that is boosting (boostTime > 0) or
\* shorter than 20 changes nothing; any other request for a living snake
\* takes max(5, 5 % of length) from its length and sets boostTime to
\* BOOST_DURATION_MS, and changes nothing else.
C33_BoostRequest ==
    [][\A address \in Addresses :
          GrowthBoost(address) =>
             LET x   == runs["solo"].state
                 y   == runs'["solo"].state
                 old == snakeOf(x, address)
                 new == snakeOf(y, address)
             IN  IF ~old.alive \/ old.boostTime > 0 \/ old.length < 20 * SCALE
                 THEN runs' = runs
                 ELSE /\ new = [old EXCEPT !.length = old.length - boostCost(old.length),
                                           !.boostTime = BOOST_DURATION_MS]
                      /\ sansPlayers(y) = sansPlayers(x)
                      /\ \A other \in Addresses \ {address} :
                            snakeOf(y, other) = snakeOf(x, other)
                      /\ runs'["solo"].rng = runs["solo"].rng]_vars

\* Player 1, 20 long, was granted a boost and is 15 long, its boost with its
\* full time to run; player 2 has boosted as well and a tick has passed.
C33_Witness ==
    LET x == runs["solo"].state
    IN  /\ x.tick = 1
        /\ x.player1.length = 15 * SCALE
        /\ x.player1.boostTime = BOOST_DURATION_MS
        /\ x.player2.length = INITIAL_LENGTH * SCALE - 5 * SCALE
        /\ x.player2.boostTime > 0 /\ x.player2.boostTime < BOOST_DURATION_MS

\* C40: a living snake always has a segment: its length is never below 15,
\* so the count its segments are reconciled to, floor(length / SEGMENT_SIZE),
\* is never 0.
C40_LivingSnakeHasSegments ==
    \A j \in 1 .. Len(getAllSnakes(runs["solo"].state)) :
       LET snake == getAllSnakes(runs["solo"].state)[j]
       IN  snake.alive => /\ Len(snake.segments) >= 1
                          /\ snake.length >= 15 * SCALE
                          /\ targetSegments(snake) >= 1

\* Player 1 has boosted down to 15, the least a snake can have, and has
\* moved since: it has the one segment of its length and the one the trim
\* leaves it.
C40_Witness ==
    LET x == runs["solo"].state
    IN  /\ x.tick >= 1
        /\ x.player1.alive
        /\ x.player1.length = 15 * SCALE
        /\ x.player1.boostTime > 0
        /\ targetSegments(x.player1) = 1
        /\ Len(x.player1.segments) <= 2

\* ------------------------------------------------------------------------
\* The orb spawner
\* ------------------------------------------------------------------------
\* The identifiers of the orbs the spawner has made.
spawnerIds(orbs) == {orbs[n].id : n \in {n \in DOMAIN orbs : orbs[n].id[1] = "rnd"}}

\* C34: a tick adds at most one spawner-made orb, and only when fewer than
\* 300 orbs lay there before it and gameTime is more than ORB_SPAWN_RATE past
\* lastOrbSpawn, which then becomes gameTime: two spawner-made orbs are more
\* than 300 ms of match time apart and the spawner leaves at most 300 orbs.
\* A tick that adds none leaves lastOrbSpawn as it was.
C34_SpawnerBounds ==
    [][LET x     == runs["solo"].state
           y     == runs'["solo"].state
           added == spawnerIds(y.orbs) \ spawnerIds(x.orbs)
       IN  /\ Cardinality(added) <= 1
           /\ added # {}
                 => /\ y.orbs[Len(y.orbs)].id \in added
                    /\ Len(y.orbs) - 1 < (ORB_COUNT * 3) \div 2
                    /\ Len(y.orbs) <= 300
                    /\ y.gameTime - x.lastOrbSpawn > 300
                    /\ y.lastOrbSpawn = y.gameTime
           /\ added = {} => y.lastOrbSpawn = x.lastOrbSpawn]_vars

\* The arena held 299 orbs when the spawner was due: it made the 300th, at
\* 400 ms, and made no other in the tick after.
C34_Witness ==
    LET x == runs["solo"].state
    IN  /\ Len(x.orbs) = 300
        /\ x.orbs[300].id[1] = "rnd"
        /\ x.lastOrbSpawn = 400
        /\ x.gameTime = 500

\* ------------------------------------------------------------------------
\* The orbs of a dead snake
\* ------------------------------------------------------------------------
\* C35: a snake of n >= 1 segments is converted into one orb of size 3 and
\* value 9 where its head was, and one orb of size 2 and value 6 for the
\* segments 1, 1 + step, 1 + 2 step, ... below n, step = max(1, floor(n / 20)),
\* all of the snake's colour: at most 39 orbs.
C35_OrbsOfTheDead ==
    LET x    == runs["dying"]
        n    == Len(x.snake.segments)
        step == IF n \div 20 > 1 THEN n \div 20 ELSE 1
        kept == {i \in 1 .. n - 1 : (i - 1) % step = 0}
    IN  x.phase = "converted" /\ n >= 1
           => /\ Len(x.orbs) = 1 + Cardinality(kept)
              /\ Len(x.orbs) <= 39
              /\ x.orbs[1].size = 3 /\ x.orbs[1].value = 9 * SCALE
              /\ x.orbs[1].x = x.snake.segments[1].x
              /\ x.orbs[1].y = x.snake.segments[1].y
              /\ \A k \in 2 .. Len(x.orbs) :
                    /\ x.orbs[k].size = 2 /\ x.orbs[k].value = 6 * SCALE
                    /\ x.orbs[k].id[3] = 1 + (k - 2) * step
                    /\ x.orbs[k].id[3] \in kept
              /\ \A k \in 1 .. Len(x.orbs) : x.orbs[k].color = x.snake.color

\* A snake of 39 segments has left 39 orbs, the most there can be.
C35_Witness ==
    /\ runs["dying"].phase = "converted"
    /\ Len(runs["dying"].snake.segments) = 39
    /\ Len(runs["dying"].orbs) = 39

\* ------------------------------------------------------------------------
\* Who plays whom
\* ------------------------------------------------------------------------
\* C36: a match made by pairing has two distinct connections as its
\* participants (a connection that joins the lobby twice for one tier is not
\* paired with itself), and the winner and the loser named in a game_over are
\* different participants.
C36_DistinctParticipants ==
    /\ \A matchId \in DOMAIN games :
          ~games[matchId].isBotMode
             => /\ games[matchId].player1Socket # games[matchId].player2Socket
                /\ games[matchId].player1Address # games[matchId].player2Address
    /\ \A matchId \in DOMAIN emitted :
          \A i \in 1 .. Len(gameOvers(matchId)) :
             gameOvers(matchId)[i].finalState.winner # gameOvers(matchId)[i].finalState.loser

\* ------------------------------------------------------------------------
\* Who hears a match
\* ------------------------------------------------------------------------
\* C37: a connection is in the room of a match, and is sent its state_update
\* messages, only if the address of its ready_to_start is the address of one
\* of the two participants of the match.
C37_RoomOfParticipants ==
    /\ \A matchId \in DOMAIN rooms :
          \A s \in rooms[matchId] : walletOf[s] \in participants(matchId)
    /\ \A matchId \in DOMAIN emitted :
          \A i \in 1 .. Len(emitted[matchId]) :
             emitted[matchId][i].event = "state_update"
                => \A s \in emitted[matchId][i].to : walletOf[s] \in participants(matchId)

\* ------------------------------------------------------------------------
\* The end of every match
\* ------------------------------------------------------------------------
\* The match has left the Map and its last message is the game_over of the
\* time limit.
endedByTime(matchId) ==
    /\ ~hasGame(matchId)
    /\ matchId \notin DOMAIN timers
    /\ Len(gameOvers(matchId)) = 1
    /\ lastEmitted(emitted[matchId]).event = "game_over"
    /\ lastEmitted(emitted[matchId]).finalState.matchType = "time_limit"

\* C38: a match that is Active, whose timer keeps firing with a positive
\* elapsed time and whose players neither forfeit nor leave, ends: its
\* game_over with reason time_limit is sent and it leaves the Map, also when
\* its ticks throw.
C38_ActiveMatchEnds ==
    \A matchId \in {multiplayerMatchId(t0, 0) : t0 \in StartTimes} :
        (hasGame(matchId) /\ matchId \in DOMAIN timers) ~> endedByTime(matchId)

\* The duel whose ticks throw has ended by its time limit: one tick threw
\* (nothing was sent for it), the next one was the last.
C38_Witness ==
    \E matchId \in DOMAIN emitted :
        /\ endedByTime(matchId)
        /\ matchFound({"s1"}, NoAddress, "1000000", "p1") \in Keys(emitted[matchId])
        /\ updatesSent(matchId) = 1
        /\ emitted[matchId][Len(emitted[matchId]) - 1].tick = TicksBefore + 2

\* ------------------------------------------------------------------------
\* The length of the queues
\* ------------------------------------------------------------------------
\* C39: whatever joins and disconnects the server has handled, the queue of
\* every tier holds at most one waiting player.
C39_QueueAtMostOne == \A stake \in DOMAIN queues : Len(queues[stake]) <= 1

\* A second join of the first tier has made a duel and left that queue
\* empty, while a player waits in the second tier.
C39_Witness ==
    /\ \E matchId \in DOMAIN emitted : ~isBotMatch(matchId)
    /\ queues["1000000"] = <<>>
    /\ Len(queues["5000000"]) = 1
====
